---- MODULE Spec2Model ----
(***************************************************************************)
(* Poster bot: the durable post/schedule store, the scheduler loop         *)
(* (postSchedulerService.ts), the delivery engine (telegramPublishService, *)
(* src/unnamed/part_006) and the admin handlers that commit or edit posts  *)
(* (mediaInput.ts, postEditMenu in src/unnamed/part_005).                  *)
(*                                                                         *)
(* Every `await` of the code is a step boundary: an action runs one        *)
(* handler from one await to the next.  A store call may throw (the fault  *)
(* budget bounds how often); the platform may accept or reject a send.     *)
(* Timestamps are minutes 1..MaxTime; 0 stands for SQL NULL in a nullable  *)
(* column (published_at, telegram_message_id) and for an absent            *)
(* scheduledAt / id in the session draft.                                  *)
(***************************************************************************)
EXTENDS Integers, Sequences, FiniteSets, TLC

\* ---- bounds of the model ------------------------------------------------
MaxPosts == 2        \* Post rows ever created
MaxSchedules == 2    \* Schedule rows ever created (autoincrement ids)
MaxTime == 2         \* last minute of the wall clock
MaxTicks == 2        \* invocations of checkAndPublishScheduledPosts in flight
MaxFaults == 1       \* store calls that throw
MaxSent == 2         \* messages in the channel up to which a process exit is explored
MaxMedia == 3        \* media items of a rendered post
MaxButtons == 2      \* buttons of a rendered post
ButtonRows == {0, 2, 10}   \* row indexes a button may carry
ButtonPositions == {0, 1}  \* positions a button may carry
Captions == {"a", "b"}     \* caption texts a media item may carry
MaxChannels == 2       \* channel ids
MaxTags == 3           \* tags in a text message
MaxMonths == 2         \* months the calendar can show
DaysInMonth == 2       \* days of a month
\* the tag names a message may use: the leading run of letters as typed, and
\* what follows it in the name (b, B, i, div, b1, h1)
TagNames ==
  {[letters |-> "b", rest |-> ""], [letters |-> "B", rest |-> ""],
   [letters |-> "i", rest |-> ""], [letters |-> "div", rest |-> ""],
   [letters |-> "b", rest |-> "1"], [letters |-> "h", rest |-> "1"]}
\* text.length of a message
TextLengths == {100, 4096, 4097}
MaxDraftButtons == 9   \* button messages of one composition
\* the button messages the admin may send, "text | url" already split
ButtonInputs == {[text |-> "x", url |-> "u1"], [text |-> "y", url |-> "u2"]}
\* button messages the handler turns away: no "|" in the message, a blank
\* text, a text of 65 characters, a url that new URL() does not parse
MalformedButtonInputs ==
  {[text |-> "x", url |-> "NULL"], [text |-> "", url |-> "u1"],
   [text |-> "long", url |-> "u1"], [text |-> "x", url |-> "example.com"]}
\* the media messages the admin may send: type, file, caption and file_size
\* (0: the message states no size)
Uploads ==
  {[type |-> "photo", file_id |-> "f1", caption |-> "NULL", file_size |-> 0],
   [type |-> "animation", file_id |-> "f2", caption |-> "a",
    file_size |-> 50 * 1024 * 1024]}
\* a photo one byte over the limit
OversizedUploads ==
  {[type |-> "photo", file_id |-> "f3", caption |-> "NULL",
    file_size |-> 10 * 1024 * 1024 + 1]}

\* ---- program constants --------------------------------------------------
MAX_MEDIA_GROUP == 10     \* TELEGRAM_LIMITS.MAX_MEDIA_GROUP
MAX_TEXT_LENGTH == 4096   \* TELEGRAM_LIMITS.MAX_TEXT_LENGTH
MAX_PHOTO_SIZE == 10 * 1024 * 1024
MAX_VIDEO_SIZE == 50 * 1024 * 1024
MAX_DOCUMENT_SIZE == 50 * 1024 * 1024
MAX_BUTTON_TEXT == 64     \* validateButtonText
RetryCeiling == 3    \* documented retry ceiling of a Schedule
TwoMinutes == 2      \* the "+2 minutes" fast path

VARIABLES
  now,               \* wall clock, in minutes
  channels,          \* Channel rows by id: "active", "inactive" (is_active
                     \* false) or "missing" (no row)
  reply,             \* what the admin handler answered the last update with
  posts,             \* Post rows, indexed by id (autoincrement, no deletes)
  schedules,         \* set of Schedule rows
  statistics,        \* post ids that own a PostStatistics row
  nextScheduleId,    \* autoincrement of schedules.id
  schedulerInterval, \* TRUE iff the module holds a timer handle (not null)
  timers,            \* recurring timers registered with setInterval, not cleared
  loaded,            \* a post with its media and buttons, as getPostById returns it
  calls,             \* the bot.api calls the engine makes for the loaded post
  botInstance,       \* TRUE iff the module-level bot reference is set
  tick,              \* frames of checkAndPublishScheduledPosts in flight
  deliv,             \* frames of publishPostToTelegram, one per caller
  admin,             \* the admin handler in flight (updates run one at a time)
  draft,             \* ctx.session: postDraft and the type of awaitingInput
  faults,            \* store calls that have thrown so far
  sent,              \* the channel: post ids of the messages the platform accepted
  failedAttempts     \* history: failed delivery attempts per schedule id

vars == <<now, channels, reply, posts, schedules, statistics, nextScheduleId, schedulerInterval, timers, loaded, calls,
          botInstance, tick, deliv, admin, draft, faults, sent, failedAttempts>>

ChannelIds == 1..MaxChannels
AllActive == [c \in ChannelIds |-> "active"]
NoReply == [kind |-> "none"]
TickIds == 1..MaxTicks
AdminProc == 0
Procs == TickIds \cup {AdminProc}

\* no post loaded for rendering
NoPost == [text |-> "", media |-> <<>>, buttons |-> <<>>]

\* awaiting is ctx.session.awaitingInput.type, "none" while there is none
NoDraft ==
  [id |-> 0, status |-> "NONE", scheduledAt |-> 0, text |-> "",
   mediaFiles |-> <<>>, buttons |-> <<>>, channelId |-> 0, step |-> "none",
   awaiting |-> "none"]
\* success: the engine returned true for due[i] (const success)
IdleTick == [pc |-> "idle", now |-> 0, due |-> <<>>, i |-> 0, success |-> FALSE]
IdleDeliv == [pc |-> "idle", post |-> 0, msg |-> 0]
IdleAdmin == [pc |-> "idle", post |-> 0]

\* ---- the store ----------------------------------------------------------

\* prisma.post.create: the new row, status as given (postService.createPost)
\* text is the draft's; media and buttons are the post's Media and PostButton
\* rows in the order of their creation
NewPost(status) ==
  [status |-> status, telegram_message_id |-> 0, published_at |-> 0,
   text |-> draft.text, media |-> <<>>, buttons |-> <<>>]

\* prisma.schedule.create with the schema's defaults
NewSchedule(id, postId, scheduledAt) ==
  [id |-> id, post_id |-> postId, scheduled_at |-> scheduledAt,
   status |-> "PENDING", attempts |-> 0, published_at |-> 0, last_error |-> "none"]

\* a lookup by post_id that finds nothing
FindsNoRow(p) == {}
ScheduleOfPost(p) == {s \in schedules : s.post_id = p}
ScheduleById(id) == {s \in schedules : s.id = id}

\* prisma.schedule.update({where: {id}, data}): the rows after the update
UpdateSchedule(id, row) ==
  {IF s.id = id THEN row ELSE s : s \in schedules}

\* the stored row of that id
RowOf(id) == CHOOSE s \in schedules : s.id = id

\* a store call throws
Fault == faults < MaxFaults /\ faults' = faults + 1
NoFault == faults' = faults

\* ---- pure helpers of the scheduler --------------------------------------

\* the query without its time bound
IsDueAnyTime(s, t) == s.status = "PENDING"

\* where: {status: 'PENDING', scheduled_at: {lte: now}}
IsDue(s, t) == s.status = "PENDING" /\ s.scheduled_at <= t

\* the rows of S in every order: a query without orderBy
AnyOrder(S) ==
  {q \in [1..Cardinality(S) -> S] : \A x \in S : \E k \in DOMAIN q : q[k] = x}

\* orderBy: {scheduled_at: 'asc'}; rows of equal scheduled_at come in an
\* order the store picks
RECURSIVE SortedBy(_)
SortedBy(S) ==
  IF S = {} THEN {<<>>}
  ELSE LET m == CHOOSE x \in S : \A y \in S : x.scheduled_at <= y.scheduled_at
           firsts == {x \in S : x.scheduled_at = m.scheduled_at}
       IN UNION {{<<x>> \o rest : rest \in SortedBy(S \ {x})} : x \in firsts}

\* the result lists prisma.schedule.findMany may return at time t
DueSchedules(t) == SortedBy({s \in schedules : IsDue(s, t)})

\* data of the update after a failed attempt: status FAILED, the snapshot's
\* attempts plus one, the error text
MarkFailed(s, snapshot, err) ==
  [s EXCEPT !.status = "FAILED", !.attempts = snapshot.attempts + 1,
            !.last_error = err]

\* data of the update after a successful delivery
MarkPublished(s, t) == [s EXCEPT !.status = "PUBLISHED", !.published_at = t]

\* the frame after the body of the for-loop finished for due[i]
Advance(f) ==
  IF f.i >= Len(f.due) THEN IdleTick ELSE [f EXCEPT !.pc = "loop", !.i = f.i + 1, !.success = FALSE]

Current(f) == f.due[f.i]

\* ---- Init ---------------------------------------------------------------
Init ==
  /\ now = 1
  /\ channels = AllActive
  /\ reply = NoReply
  /\ posts = <<>>
  /\ schedules = {}
  /\ statistics = {}
  /\ nextScheduleId = 1
  /\ schedulerInterval = FALSE
  /\ timers = 0
  /\ loaded = NoPost
  /\ calls = <<>>
  /\ botInstance = FALSE
  /\ tick = [t \in TickIds |-> IdleTick]
  /\ deliv = [c \in Procs |-> IdleDeliv]
  /\ admin = IdleAdmin
  /\ draft = NoDraft
  /\ faults = 0
  /\ sent = <<>>
  /\ failedAttempts = [id \in 1..MaxSchedules |-> 0]

\* ---- the scheduler loop -------------------------------------------------

InFlight == {t \in TickIds : tick[t].pc # "idle"}
\* the frame a new invocation runs in
FreeFrame == CHOOSE t \in TickIds \ InFlight : \A u \in TickIds \ InFlight : t <= u

\* checkAndPublishScheduledPosts up to the end of its findMany: frame t holds
\* the result, or the call ends at once (no due rows, or findMany threw and
\* the outer catch logged it)
Invoke(t) ==
  /\ t = FreeFrame
  /\ \/ /\ NoFault
        /\ \E due \in DueSchedules(now) :
             tick' = [tick EXCEPT ![t] =
                        IF Len(due) = 0 THEN IdleTick
                        ELSE [pc |-> "loop", now |-> now, due |-> due, i |-> 1,
                              success |-> FALSE]]
     \/ /\ Fault
        /\ UNCHANGED tick

\* the guard without its test
NeverRunning == FALSE

\* if (schedulerInterval) { warn; return }: a call while the handle is set
\* changes nothing
AlreadyRunning == schedulerInterval

\* k is the number of invocations the timing lets overlap: 1 when every
\* invocation ends before the next one starts
StartScheduler(k) ==
  /\ ~AlreadyRunning
  /\ Cardinality(InFlight) < k
  /\ botInstance' = TRUE
  /\ \E t \in TickIds : Invoke(t)
  /\ schedulerInterval' = TRUE
  /\ timers' = timers + 1
  /\ UNCHANGED <<loaded, calls, now, channels, reply, posts, schedules, statistics, nextScheduleId, deliv,
                 admin, draft, sent, failedAttempts>>

\* clearInterval(schedulerInterval); schedulerInterval = null
StopScheduler ==
  /\ schedulerInterval
  /\ schedulerInterval' = FALSE
  /\ timers' = timers - 1
  /\ UNCHANGED <<loaded, calls, now, channels, reply, posts, schedules, statistics, nextScheduleId, botInstance,
                 tick, deliv, admin, draft, faults, sent, failedAttempts>>

\* the setInterval callback
IntervalTick(k) ==
  /\ timers > 0
  /\ Cardinality(InFlight) < k
  /\ \E t \in TickIds : Invoke(t)
  /\ UNCHANGED <<now, channels, reply, posts, schedules, statistics, nextScheduleId,
                 schedulerInterval, timers, loaded, calls, botInstance, deliv, admin, draft, sent,
                 failedAttempts>>

TriggerSchedulerCheck(k) ==
  /\ Cardinality(InFlight) < k
  /\ \E t \in TickIds : Invoke(t)
  /\ UNCHANGED <<now, channels, reply, posts, schedules, statistics, nextScheduleId,
                 schedulerInterval, timers, loaded, calls, botInstance, deliv, admin, draft, sent,
                 failedAttempts>>

\* publishPostToTelegram up to the end of getPostById, called by c for post p:
\* getPostById returns null when the store throws, and the engine returns false
CallDelivery(c, p) ==
  \/ /\ NoFault
     /\ deliv' = [deliv EXCEPT ![c] = [pc |-> "send", post |-> p, msg |-> 0]]
  \/ /\ Fault
     /\ deliv' = [deliv EXCEPT ![c] = [pc |-> "retFalse", post |-> p, msg |-> 0]]

\* top of the loop body for due[i]
TickDeliver(t) ==
  /\ tick[t].pc = "loop"
  /\ IF botInstance
       THEN /\ CallDelivery(t, Current(tick[t]).post_id)
            /\ tick' = [tick EXCEPT ![t].pc = "deliver"]
            /\ UNCHANGED failedAttempts
       ELSE \* throw new Error('Bot instance not available')
            /\ tick' = [tick EXCEPT ![t].pc = "catchSchedule"]
            /\ failedAttempts' =
                 [failedAttempts EXCEPT ![Current(tick[t]).id] = @ + 1]
            /\ UNCHANGED <<deliv, faults>>
  /\ UNCHANGED <<now, channels, reply, posts, schedules, statistics, nextScheduleId,
                 schedulerInterval, timers, loaded, calls, botInstance, admin, draft, sent>>

\* publishPostToTelegram returned true: prisma.schedule.update PUBLISHED
TickSuccess(t) ==
  /\ tick[t].pc = "deliver"
  /\ deliv[t].pc = "retTrue"
  /\ deliv' = [deliv EXCEPT ![t] = IdleDeliv]
  /\ LET cur == Current(tick[t]) IN
     \/ /\ ScheduleById(cur.id) # {}
        /\ NoFault
        /\ schedules' = UpdateSchedule(cur.id, MarkPublished(RowOf(cur.id), now))
        /\ tick' = [tick EXCEPT ![t] = Advance(tick[t])]
     \/ /\ \/ ScheduleById(cur.id) = {} /\ NoFault
           \/ Fault
        /\ tick' = [tick EXCEPT ![t].pc = "catchSchedule", ![t].success = TRUE]
        /\ UNCHANGED schedules
  /\ UNCHANGED <<now, channels, reply, posts, statistics, nextScheduleId, schedulerInterval, timers, loaded, calls,
                 botInstance, admin, draft, sent, failedAttempts>>

\* publishPostToTelegram returned false: prisma.schedule.update FAILED
TickFailure(t) ==
  /\ tick[t].pc = "deliver"
  /\ deliv[t].pc = "retFalse"
  /\ deliv' = [deliv EXCEPT ![t] = IdleDeliv]
  /\ LET cur == Current(tick[t]) IN
     /\ failedAttempts' = [failedAttempts EXCEPT ![cur.id] = @ + 1]
     /\ \/ /\ ScheduleById(cur.id) # {}
           /\ NoFault
           /\ schedules' =
                UpdateSchedule(cur.id, MarkFailed(RowOf(cur.id), cur, "telegram"))
           /\ tick' = [tick EXCEPT ![t] = Advance(tick[t])]
        \/ /\ \/ ScheduleById(cur.id) = {} /\ NoFault
              \/ Fault
           /\ tick' = [tick EXCEPT ![t].pc = "catchSchedule"]
           /\ UNCHANGED schedules
  /\ UNCHANGED <<now, channels, reply, posts, statistics, nextScheduleId, schedulerInterval, timers, loaded, calls,
                 botInstance, admin, draft, sent>>

\* the per-record catch: prisma.schedule.update FAILED; when it throws, the
\* exception leaves the loop and the outer catch ends the invocation
TickCatchSchedule(t) ==
  /\ tick[t].pc = "catchSchedule"
  /\ LET cur == Current(tick[t]) IN
     \/ /\ ScheduleById(cur.id) # {}
        /\ NoFault
        /\ schedules' =
             UpdateSchedule(cur.id, MarkFailed(RowOf(cur.id), cur, "exception"))
        /\ tick' = [tick EXCEPT ![t].pc = "catchPost"]
     \/ /\ \/ ScheduleById(cur.id) = {} /\ NoFault
           \/ Fault
        /\ tick' = [tick EXCEPT ![t] = IdleTick]
        /\ UNCHANGED schedules
  /\ UNCHANGED <<now, channels, reply, posts, statistics, nextScheduleId, schedulerInterval, timers, loaded, calls,
                 botInstance, deliv, admin, draft, sent, failedAttempts>>

\* the per-record catch: prisma.post.update FAILED
TickCatchPost(t) ==
  /\ tick[t].pc = "catchPost"
  /\ LET cur == Current(tick[t]) IN
     \/ /\ NoFault
        /\ posts' = [posts EXCEPT ![cur.post_id].status = "FAILED"]
        /\ tick' = [tick EXCEPT ![t] = Advance(tick[t])]
     \/ /\ Fault
        /\ tick' = [tick EXCEPT ![t] = IdleTick]
        /\ UNCHANGED posts
  /\ UNCHANGED <<now, channels, reply, schedules, statistics, nextScheduleId, schedulerInterval, timers, loaded, calls,
                 botInstance, deliv, admin, draft, sent, failedAttempts>>

\* ---- the delivery engine ------------------------------------------------

\* bot.api.send*: the platform accepts the message and returns its id, or
\* the call throws
DeliverSend(c) ==
  /\ deliv[c].pc = "send"
  /\ \/ /\ sent' = Append(sent, deliv[c].post)
        /\ deliv' = [deliv EXCEPT ![c].pc = "setPublished", ![c].msg = Len(sent')]
     \/ /\ deliv' = [deliv EXCEPT ![c].pc = "setFailed"]
        /\ UNCHANGED sent
  /\ UNCHANGED <<now, channels, reply, posts, schedules, statistics, nextScheduleId,
                 schedulerInterval, timers, loaded, calls, botInstance, tick, admin, draft, faults,
                 failedAttempts>>

\* updatePost(postId, {status: PUBLISHED})
DeliverSetPublished(c) ==
  /\ deliv[c].pc = "setPublished"
  /\ \/ /\ NoFault
        /\ posts' = [posts EXCEPT ![deliv[c].post].status = "PUBLISHED"]
        /\ deliv' = [deliv EXCEPT ![c].pc = "setMessageId"]
     \/ /\ Fault
        /\ deliv' = [deliv EXCEPT ![c].pc = "setFailed"]
        /\ UNCHANGED posts
  /\ UNCHANGED <<now, channels, reply, schedules, statistics, nextScheduleId, schedulerInterval, timers, loaded, calls,
                 botInstance, tick, admin, draft, sent, failedAttempts>>

\* prisma.post.update({telegram_message_id, published_at}); return true
DeliverSetMessageId(c) ==
  /\ deliv[c].pc = "setMessageId"
  /\ \/ /\ NoFault
        /\ posts' = [posts EXCEPT ![deliv[c].post].telegram_message_id = deliv[c].msg,
                                  ![deliv[c].post].published_at = now]
        /\ deliv' = [deliv EXCEPT ![c].pc = "retTrue"]
     \/ /\ Fault
        /\ deliv' = [deliv EXCEPT ![c].pc = "setFailed"]
        /\ UNCHANGED posts
  /\ UNCHANGED <<now, channels, reply, schedules, statistics, nextScheduleId, schedulerInterval, timers, loaded, calls,
                 botInstance, tick, admin, draft, sent, failedAttempts>>

\* the catch without its inner try: a throwing update leaves the engine
RethrowSetFailed(threw) == IF threw THEN "threw" ELSE "retFalse"

\* where the engine is after the update in its catch, whether the update
\* threw or not: try { updatePost FAILED } catch { log }; return false
AfterSetFailed(threw) == "retFalse"

\* the engine's catch: updatePost(postId, {status: FAILED}), its own failure
\* swallowed; return false
DeliverSetFailed(c) ==
  /\ deliv[c].pc = "setFailed"
  /\ \/ /\ NoFault
        /\ posts' = [posts EXCEPT ![deliv[c].post].status = "FAILED"]
        /\ deliv' = [deliv EXCEPT ![c].pc = AfterSetFailed(FALSE)]
     \/ /\ Fault
        /\ UNCHANGED posts
        /\ deliv' = [deliv EXCEPT ![c].pc = AfterSetFailed(TRUE)]
  /\ UNCHANGED <<now, channels, reply, schedules, statistics, nextScheduleId, schedulerInterval, timers, loaded, calls,
                 botInstance, tick, admin, draft, sent, failedAttempts>>

\* ---- the admin handlers --------------------------------------------------

AdminIdle == admin.pc = "idle" /\ deliv[AdminProc].pc = "idle"

\* createPost: the row appended, its id the new length
CreatePost(status) == posts' = Append(posts, NewPost(status))

\* /newpost through the channel and text steps: a draft with channel and text,
\* status 'DRAFT', no target time
NewpostCommand ==
  /\ AdminIdle
  /\ draft' = [id |-> 0, status |-> "DRAFT", scheduledAt |-> 0, text |-> "body",
               mediaFiles |-> <<>>, buttons |-> <<>>, channelId |-> 1,
               step |-> "media", awaiting |-> "none"]
  /\ UNCHANGED <<now, channels, reply, posts, schedules, statistics, nextScheduleId,
                 schedulerInterval, timers, loaded, calls, botInstance, tick, deliv, admin, faults,
                 sent, failedAttempts>>

\* calendar, hour and minute callbacks: the draft's scheduledAt is set to the
\* picked time (days before today are not offered, earlier times today are)
SelectTime(t) ==
  /\ AdminIdle
  /\ draft # NoDraft
  /\ draft' = [draft EXCEPT !.scheduledAt = t]
  /\ UNCHANGED <<now, channels, reply, posts, schedules, statistics, nextScheduleId,
                 schedulerInterval, timers, loaded, calls, botInstance, tick, deliv, admin, faults,
                 sent, failedAttempts>>

\* clearPostDraft
HandleCancel ==
  /\ AdminIdle
  /\ draft # NoDraft
  /\ draft' = NoDraft
  /\ UNCHANGED <<now, channels, reply, posts, schedules, statistics, nextScheduleId,
                 schedulerInterval, timers, loaded, calls, botInstance, tick, deliv, admin, faults,
                 sent, failedAttempts>>

\* getActiveChannels: where: {is_active: true}
ActiveChannels == {c \in ChannelIds : channels[c] = "active"}

\* newpostCommand: the draft is cleared; with no active channel the admin is
\* told so; otherwise the draft starts at step 'channel' with status 'DRAFT'
\* and the active channels are offered
NewpostChannelStep ==
  /\ AdminIdle
  /\ IF ActiveChannels = {}
       THEN /\ draft' = NoDraft
            /\ reply' = [kind |-> "noChannels"]
       ELSE /\ draft' = [NoDraft EXCEPT !.status = "DRAFT", !.step = "channel"]
            /\ reply' = [kind |-> "channelSelection"]
  /\ UNCHANGED <<now, channels, posts, schedules, statistics, nextScheduleId,
                 schedulerInterval, timers, loaded, calls, botInstance, tick, deliv, admin, faults,
                 sent, failedAttempts>>

\* deactivateChannel: is_active: false (the soft delete of a channel)
DeactivateChannel(c) ==
  /\ channels[c] = "active"
  /\ channels' = [channels EXCEPT ![c] = "inactive"]
  /\ UNCHANGED <<now, reply, posts, schedules, statistics, nextScheduleId,
                 schedulerInterval, timers, loaded, calls, botInstance, tick, deliv, admin, draft,
                 faults, sent, failedAttempts>>

\* getChannelById(channelId) is not null: findUnique({where: {id}})
ChannelFound(c) == channels[c] # "missing"

\* handleChannelSelection for the button of channel c: getChannelById, which
\* returns null when there is no row or the store throws; a channel found is
\* stored in the draft with step 'text' and handleTextStep asks for the text
\* (setAwaitingInput type 'text')
HandleChannelSelection(c) ==
  /\ AdminIdle
  /\ \/ /\ NoFault
        /\ ChannelFound(c)
        /\ draft' = [draft EXCEPT !.channelId = c, !.step = "text",
                                  !.awaiting = "text"]
        /\ reply' = [kind |-> "textInput"]
     \/ /\ \/ NoFault /\ ~ChannelFound(c)
           \/ Fault
        /\ reply' = [kind |-> "channelNotFound"]
        /\ UNCHANGED draft
  /\ UNCHANGED <<now, channels, posts, schedules, statistics, nextScheduleId,
                 schedulerInterval, timers, loaded, calls, botInstance, tick, deliv, admin,
                 sent, failedAttempts>>

\* ---- the date, hour and minute selection ------------------------------------

\* local time counted in minutes: (day, hour, minute) as a Date holds it
HoursPerDay == 24
MinutesPerHour == 60
TimeOf(day, hour, minute) == (day * HoursPerDay + hour) * MinutesPerHour + minute
DayOf(t) == t \div (HoursPerDay * MinutesPerHour)
HourOf(t) == (t \div MinutesPerHour) % HoursPerDay
MinuteOf(t) == t % MinutesPerHour

Days == 1..(MaxMonths * DaysInMonth)
MonthOf(day) == ((day - 1) \div DaysInMonth) + 1
Hours == 0..(HoursPerDay - 1)

\* a minute keyboard with a button every five minutes
EveryFiveMinutes(selectedHour) == {5 * k : k \in 0..11}

\* buildMinutePickerKeyboard: the minutes its buttons carry
MinuteButtons(selectedHour) == {0, 15, 30, 45}

\* buildCalendarKeyboard(currentDate): the days of the month of currentDate
\* that carry a date; a day before today carries cal_ignore
CalendarKeyboard(month, today) ==
  [kind |-> "calendar", month |-> month,
   days |-> {d \in Days : MonthOf(d) = month /\ ~(d < today)}]

\* the draft of the time step of the composition
TimeStepDraft ==
  [NoDraft EXCEPT !.status = "DRAFT", !.text = "body", !.channelId = 1,
                  !.step = "time"]

\* handleScheduleStep: the message becomes the calendar of the current month
HandleScheduleStep ==
  /\ AdminIdle
  /\ draft # NoDraft
  /\ reply.kind \in {"none", "preview"}
  /\ reply' = CalendarKeyboard(MonthOf(DayOf(now)), DayOf(now))
  /\ UNCHANGED <<now, channels, posts, schedules, statistics, nextScheduleId,
                 schedulerInterval, timers, loaded, calls, botInstance, tick, deliv,
                 admin, draft, faults, sent, failedAttempts>>

\* handleCalendarCallback, month navigation: the calendar of the month before
\* or after, built now
HandleCalendarNavigation(month) ==
  /\ AdminIdle
  /\ reply.kind = "calendar"
  /\ month \in {reply.month - 1, reply.month + 1}
  /\ reply' = CalendarKeyboard(month, DayOf(now))
  /\ UNCHANGED <<now, channels, posts, schedules, statistics, nextScheduleId,
                 schedulerInterval, timers, loaded, calls, botInstance, tick, deliv,
                 admin, draft, faults, sent, failedAttempts>>

\* handleCalendarCallback, date selection: a press of a day button of the
\* calendar on the screen; parseCalendarDate gives that day at 00:00, it is
\* stored in the draft and the message becomes the hour picker
HandleCalendarCallback(day) ==
  /\ AdminIdle
  /\ reply.kind = "calendar"
  /\ day \in reply.days
  /\ draft' = [draft EXCEPT !.scheduledAt = TimeOf(day, 0, 0)]
  /\ reply' = [kind |-> "hours"]
  /\ UNCHANGED <<now, channels, posts, schedules, statistics, nextScheduleId,
                 schedulerInterval, timers, loaded, calls, botInstance, tick, deliv,
                 admin, faults, sent, failedAttempts>>

\* handleTimeCallback, an hour button: the message becomes the minute picker
\* and the stored date gets the hour, minutes 0
HandleTimeCallback(hour) ==
  /\ AdminIdle
  /\ reply.kind = "hours"
  /\ reply' = [kind |-> "minutes", hour |-> hour, minutes |-> MinuteButtons(hour)]
  /\ draft' = IF draft.scheduledAt # 0
               THEN [draft EXCEPT !.scheduledAt = TimeOf(DayOf(@), hour, 0)]
               ELSE draft
  /\ UNCHANGED <<now, channels, posts, schedules, statistics, nextScheduleId,
                 schedulerInterval, timers, loaded, calls, botInstance, tick, deliv,
                 admin, faults, sent, failedAttempts>>

\* handleTimeCallback, the back button of the hour and of the minute picker:
\* handleScheduleStep
HandleTimeBack ==
  /\ AdminIdle
  /\ reply.kind \in {"hours", "minutes"}
  /\ reply' = CalendarKeyboard(MonthOf(DayOf(now)), DayOf(now))
  /\ UNCHANGED <<now, channels, posts, schedules, statistics, nextScheduleId,
                 schedulerInterval, timers, loaded, calls, botInstance, tick, deliv,
                 admin, draft, faults, sent, failedAttempts>>

\* handleMinuteCallback, a minute button: parseMinute, then the stored time
\* gets the minute and the step becomes the preview; without a stored time
\* nothing happens
HandleMinuteCallback(minute) ==
  /\ AdminIdle
  /\ reply.kind = "minutes"
  /\ minute \in reply.minutes
  /\ IF draft = NoDraft \/ draft.scheduledAt = 0
       THEN UNCHANGED <<draft, reply>>
       ELSE /\ draft' = [draft EXCEPT
                           !.scheduledAt = TimeOf(DayOf(@), HourOf(@), minute),
                           !.step = "preview"]
            /\ reply' = [kind |-> "preview"]
  /\ UNCHANGED <<now, channels, posts, schedules, statistics, nextScheduleId,
                 schedulerInterval, timers, loaded, calls, botInstance, tick, deliv,
                 admin, faults, sent, failedAttempts>>

\* the local day ends while the admin is at the pickers
NextLocalDay ==
  /\ DayOf(now) + 1 \in Days
  /\ now' = now + HoursPerDay * MinutesPerHour
  /\ UNCHANGED <<channels, reply, posts, schedules, statistics, nextScheduleId,
                 schedulerInterval, timers, loaded, calls, botInstance, tick, deliv,
                 admin, draft, faults, sent, failedAttempts>>

\* the composition at the time step, on the first day, at some time of day
InitTimePicker ==
  /\ now \in {TimeOf(1, h, m) : h \in {0, HoursPerDay - 1}, m \in {0, 7}}
  /\ channels = AllActive
  /\ reply = NoReply
  /\ posts = <<>>
  /\ schedules = {}
  /\ statistics = {}
  /\ nextScheduleId = 1
  /\ schedulerInterval = FALSE
  /\ timers = 0
  /\ loaded = NoPost
  /\ calls = <<>>
  /\ botInstance = FALSE
  /\ tick = [t \in TickIds |-> IdleTick]
  /\ deliv = [c \in Procs |-> IdleDeliv]
  /\ admin = IdleAdmin
  /\ draft = TimeStepDraft
  /\ faults = 0
  /\ sent = <<>>
  /\ failedAttempts = [id \in 1..MaxSchedules |-> 0]

NextTimePicker ==
  \/ HandleScheduleStep
  \/ \E month \in 1..MaxMonths : HandleCalendarNavigation(month)
  \/ \E day \in Days : HandleCalendarCallback(day)
  \/ \E hour \in Hours : HandleTimeCallback(hour)
  \/ HandleTimeBack
  \/ \E minute \in 0..(MinutesPerHour - 1) : HandleMinuteCallback(minute)
  \/ NextLocalDay

SpecTimePicker == InitTimePicker /\ [][NextTimePicker]_vars

\* ---- the text step ----------------------------------------------------------

\* a tag of the text: "<name ...>", "</name>" or "<name ... />"
Tags == [close : BOOLEAN, name : TagNames, selfClosing : BOOLEAN]

\* the text messages: length, whether only white space, and its tags in order
Texts ==
  [length : TextLengths, blank : {FALSE},
   tags : UNION {[1..n -> Tags] : n \in 0..MaxTags}]
    \cup [length : TextLengths, blank : {TRUE}, tags : {<<>>}]

\* the draft's text while none is set, as a text of this step
NoText == [length |-> 0, blank |-> TRUE, tags |-> <<>>]

\* a handler's answer: its kind, the numbers and the tag names it states
Answer(kind, length, max, names) ==
  [kind |-> kind, length |-> length, max |-> max, names |-> names]
Valid == Answer("valid", 0, 0, <<>>)

\* a length check that turns away the maximum itself
RejectsTheMaximum(text) ==
  IF text.length = 0 \/ text.blank THEN Answer("empty", 0, 0, <<>>)
  ELSE IF text.length >= MAX_TEXT_LENGTH
    THEN Answer("tooLong", text.length, MAX_TEXT_LENGTH, <<>>)
  ELSE Valid

\* validateTextLength: empty after trim, else longer than the maximum
ValidateTextLength(text) ==
  IF text.length = 0 \/ text.blank THEN Answer("empty", 0, 0, <<>>)
  ELSE IF text.length > MAX_TEXT_LENGTH
    THEN Answer("tooLong", text.length, MAX_TEXT_LENGTH, <<>>)
  ELSE Valid

allowedTags ==
  {"b", "strong", "i", "em", "u", "ins", "s", "strike", "del", "code", "pre",
   "a", "spoiler"}

\* String.prototype.toLowerCase on the names in use
ToLowerCase(x) == IF x = "B" THEN "b" ELSE x

\* match[1].toLowerCase() of /<\/?([a-z]+)[^>]*>/gi: the group stops at the
\* first character that is no letter, the rest of the name falls to [^>]*
TagName(tag) == ToLowerCase(tag.name.letters)

\* the while loop of validateHTML over the matches from the k-th on, openTags
\* as it stands
RECURSIVE ScanTags(_, _, _)
ScanTags(tags, k, openTags) ==
  IF k > Len(tags)
    THEN IF Len(openTags) > 0 THEN Answer("unclosed", 0, 0, openTags) ELSE Valid
  ELSE LET tagName == TagName(tags[k]) IN
    IF tagName \notin allowedTags THEN Answer("notAllowed", 0, 0, <<tagName>>)
    ELSE IF tags[k].close
      THEN LET lastOpen == IF openTags = <<>> THEN "undefined"
                           ELSE openTags[Len(openTags)]
           IN IF lastOpen # tagName
                THEN Answer("nesting", 0, 0, <<lastOpen, tagName>>)
                ELSE ScanTags(tags, k + 1, SubSeq(openTags, 1, Len(openTags) - 1))
    ELSE IF ~tags[k].selfClosing
      THEN ScanTags(tags, k + 1, Append(openTags, tagName))
    ELSE ScanTags(tags, k + 1, openTags)

ValidateHTML(text) == ScanTags(text.tags, 1, <<>>)

\* the text handler for the message in flight.  Unless text is awaited it
\* returns, and as it never calls next() no later handler sees the message.
\* Else validateTextLength, validateHTML, then updatePostDraft({text, step:
\* 'media'}), clearAwaitingInput and the confirmation; an invalid text is
\* answered with its error
TextInput ==
  /\ admin.pc = "textMessage"
  /\ admin' = IdleAdmin
  /\ IF draft.awaiting # "text"
       THEN reply' = NoReply /\ UNCHANGED draft
     ELSE IF ValidateTextLength(admin.text) # Valid
       THEN reply' = ValidateTextLength(admin.text) /\ UNCHANGED draft
     ELSE IF ValidateHTML(admin.text) # Valid
       THEN reply' = ValidateHTML(admin.text) /\ UNCHANGED draft
     ELSE /\ draft' = [draft EXCEPT !.text = admin.text, !.step = "media",
                                    !.awaiting = "none"]
          /\ reply' = Answer("textConfirmation", admin.text.length, 0, <<>>)
  /\ UNCHANGED <<now, channels, posts, schedules, statistics, nextScheduleId,
                 schedulerInterval, timers, loaded, calls, botInstance, tick, deliv, faults,
                 sent, failedAttempts>>

\* the draft after the channel step, text awaited, and a text message in
\* flight to the text handler
InitTextStep ==
  /\ now = 1
  /\ channels = AllActive
  /\ reply = NoReply
  /\ posts = <<>>
  /\ schedules = {}
  /\ statistics = {}
  /\ nextScheduleId = 1
  /\ schedulerInterval = FALSE
  /\ timers = 0
  /\ loaded = NoPost
  /\ calls = <<>>
  /\ botInstance = FALSE
  /\ tick = [t \in TickIds |-> IdleTick]
  /\ deliv = [c \in Procs |-> IdleDeliv]
  /\ \E t \in Texts : admin = [pc |-> "textMessage", post |-> 0, text |-> t]
  /\ draft = [NoDraft EXCEPT !.status = "DRAFT", !.step = "text", !.channelId = 1,
                             !.text = NoText, !.awaiting = "text"]
  /\ faults = 0
  /\ sent = <<>>
  /\ failedAttempts = [id \in 1..MaxSchedules |-> 0]

NextTextStep == TextInput

SpecTextStep == InitTextStep /\ [][NextTextStep]_vars

\* a group check that lets one item too many through
AllowsEleven(count) == ~(count > MAX_MEDIA_GROUP + 1)

\* validateMediaGroupSize(count).valid
ValidateMediaGroupSize(count) == ~(count > MAX_MEDIA_GROUP)

\* the position that counts from one
PositionFromOne(mediaFiles) == Len(mediaFiles) + 1

\* position: mediaFiles.length
NextPosition(mediaFiles) == Len(mediaFiles)

\* the MediaType handleMediaUpload derives from the kind of message
UploadMediaType(type) ==
  CASE type = "photo" -> "PHOTO"
    [] type = "video" -> "VIDEO"
    [] type = "document" -> "DOCUMENT"
    [] type = "animation" -> "ANIMATION"

\* validateMediaSize(fileSize, fileType).valid
ValidateMediaSize(fileSize, fileType) ==
  ~(fileSize > (CASE fileType = "photo" -> MAX_PHOTO_SIZE
                  [] fileType = "video" -> MAX_VIDEO_SIZE
                  [] OTHER -> MAX_DOCUMENT_SIZE))

\* handleMediaAddStep: without a draft the session is reported expired; else
\* step 'media' and setAwaitingInput type 'media'
HandleMediaAddStep ==
  /\ AdminIdle
  /\ IF draft.status = "NONE"
       THEN reply' = [kind |-> "sessionExpired"] /\ UNCHANGED draft
       ELSE /\ draft' = [draft EXCEPT !.step = "media", !.awaiting = "media"]
            /\ reply' = [kind |-> "mediaUpload"]
  /\ UNCHANGED <<now, channels, posts, schedules, statistics, nextScheduleId,
                 schedulerInterval, timers, loaded, calls, botInstance, tick, deliv, admin, faults,
                 sent, failedAttempts>>

\* handleMediaUpload: unless media is awaited it returns; without a draft the
\* session is reported expired; the file size (animation as document) and
\* the group size for one more item are validated and an invalid item is
\* answered with the error, the draft as it was; a valid item is pushed with
\* the next position
HandleMediaUpload(msg) ==
  /\ AdminIdle
  /\ IF draft.awaiting # "media"
       THEN reply' = NoReply /\ UNCHANGED draft
     ELSE IF draft.status = "NONE"
       THEN reply' = [kind |-> "sessionExpired"] /\ UNCHANGED draft
     ELSE IF /\ msg.file_size # 0
             /\ ~ValidateMediaSize(msg.file_size,
                    IF msg.type = "animation" THEN "document" ELSE msg.type)
       THEN reply' = [kind |-> "mediaSize"] /\ UNCHANGED draft
     ELSE IF ~ValidateMediaGroupSize(Len(draft.mediaFiles) + 1)
       THEN reply' = [kind |-> "mediaGroupSize"] /\ UNCHANGED draft
     ELSE /\ draft' = [draft EXCEPT !.mediaFiles =
                         Append(@, [fileId |-> msg.file_id,
                                    fileType |-> UploadMediaType(msg.type),
                                    caption |-> msg.caption,
                                    position |-> NextPosition(draft.mediaFiles)])]
          /\ reply' = [kind |-> "mediaAdded"]
  /\ UNCHANGED <<now, channels, posts, schedules, statistics, nextScheduleId,
                 schedulerInterval, timers, loaded, calls, botInstance, tick, deliv, admin, faults,
                 sent, failedAttempts>>

\* text.length of the button texts in use
ButtonTextLength(text) ==
  IF text = "" THEN 0 ELSE IF text = "long" THEN MAX_BUTTON_TEXT + 1 ELSE 1

\* validateButtonText(text).valid
ValidateButtonText(text) ==
  ~(text = "" \/ ButtonTextLength(text) > MAX_BUTTON_TEXT)

\* validateUrl(url).valid: new URL(url) does not throw; it throws for a
\* string without a scheme
ValidateUrl(url) == url # "example.com"

\* handleButtonAddStep: without a draft the session is reported expired; else
\* step 'buttons' and setAwaitingInput type 'button'
HandleButtonAddStep ==
  /\ AdminIdle
  /\ IF draft.status = "NONE"
       THEN reply' = [kind |-> "sessionExpired"] /\ UNCHANGED draft
       ELSE /\ draft' = [draft EXCEPT !.step = "buttons", !.awaiting = "button"]
            /\ reply' = [kind |-> "buttonInput"]
  /\ UNCHANGED <<now, channels, posts, schedules, statistics, nextScheduleId,
                 schedulerInterval, timers, loaded, calls, botInstance, tick, deliv, admin, faults,
                 sent, failedAttempts>>

\* the button handler, called with a text message: unless a button is
\* awaited it returns; without a draft the session is reported expired; a
\* message that is not "text | url", a text or a url that fails validation
\* is answered with the error, the draft as it was; else the button is
\* pushed into row 0 at the next position
ButtonInput(msg) ==
  /\ AdminIdle
  /\ Len(draft.buttons) < MaxDraftButtons
  /\ IF draft.awaiting # "button"
       THEN reply' = NoReply /\ UNCHANGED draft
     ELSE IF draft.status = "NONE"
       THEN reply' = [kind |-> "sessionExpired"] /\ UNCHANGED draft
     ELSE IF msg.url = "NULL"
       THEN reply' = [kind |-> "buttonFormat"] /\ UNCHANGED draft
     ELSE IF ~ValidateButtonText(msg.text)
       THEN reply' = [kind |-> "buttonText"] /\ UNCHANGED draft
     ELSE IF ~ValidateUrl(msg.url)
       THEN reply' = [kind |-> "buttonUrl"] /\ UNCHANGED draft
     ELSE /\ draft' = [draft EXCEPT !.buttons =
                         Append(@, [text |-> msg.text, url |-> msg.url, row |-> 0,
                                    position |-> Len(draft.buttons)])]
          /\ reply' = [kind |-> "buttonAdded"]
  /\ UNCHANGED <<now, channels, posts, schedules, statistics, nextScheduleId,
                 schedulerInterval, timers, loaded, calls, botInstance, tick, deliv, admin, faults,
                 sent, failedAttempts>>

\* the update "/cancel" arrives: the session middleware has read the session
\* and the update is on its way through the registered handlers
CancelCommand ==
  /\ AdminIdle
  /\ draft # NoDraft
  /\ admin' = [pc |-> "cancel", post |-> 0]
  /\ UNCHANGED <<now, channels, reply, posts, schedules, statistics, nextScheduleId,
                 schedulerInterval, timers, loaded, calls, botInstance, tick, deliv, draft, faults,
                 sent, failedAttempts>>

\* the handlers of "/cancel" have run: the text handlers, registered first,
\* keep the update or store it as input; bot.command('cancel') only replies;
\* none of them calls clearPostDraft or the store
CancelCommandDone ==
  /\ admin.pc = "cancel"
  /\ admin' = IdleAdmin
  /\ UNCHANGED <<now, channels, reply, posts, schedules, statistics, nextScheduleId,
                 schedulerInterval, timers, loaded, calls, botInstance, tick, deliv, draft, faults,
                 sent, failedAttempts>>

\* the position that ignores the rows already stored
AlwaysFirst(rows) == 0

\* addMedia: position = prisma.media.count({where: {post_id}})
MediaCount(rows) == Len(rows)

\* addMedia(post.id, media.fileId, media.fileType, media.fileSize,
\* media.caption): the Media row created for a post that has the rows given
AddMedia(rows, m) ==
  Append(rows, [file_id |-> m.fileId, file_type |-> m.fileType,
                caption |-> m.caption, position |-> MediaCount(rows)])

\* addButton(post.id, button.text, button.url, button.row, button.position)
AddButton(rows, b) ==
  Append(rows, [text |-> b.text, url |-> b.url, row |-> b.row,
                position |-> b.position])

\* handlePublishNow after its loop over draft.mediaFiles
AfterAddMedia == IF draft.buttons # <<>> THEN "pnButtons" ELSE "pnPublish"

\* handlePublishNow after createPost
AfterCreatePost == IF draft.mediaFiles # <<>> THEN "pnMedia" ELSE AfterAddMedia

\* handlePublishNow, for (const media of draft.mediaFiles) await addMedia:
\* one iteration; the post is new, so the rows it has are the items done
PublishNowAddMedia ==
  /\ admin.pc = "pnMedia"
  /\ LET k == Len(posts[admin.post].media) + 1 IN
     \/ /\ NoFault
        /\ posts' = [posts EXCEPT ![admin.post].media = AddMedia(@, draft.mediaFiles[k])]
        /\ admin' = [admin EXCEPT !.pc = IF k = Len(draft.mediaFiles)
                                           THEN AfterAddMedia ELSE "pnMedia"]
     \/ /\ Fault
        /\ admin' = IdleAdmin
        /\ UNCHANGED posts
  /\ UNCHANGED <<now, channels, reply, schedules, statistics, nextScheduleId, schedulerInterval, timers, loaded, calls,
                 botInstance, tick, deliv, draft, sent, failedAttempts>>

\* handlePublishNow, for (const button of draft.buttons) await addButton:
\* one iteration
PublishNowAddButton ==
  /\ admin.pc = "pnButtons"
  /\ LET k == Len(posts[admin.post].buttons) + 1 IN
     \/ /\ NoFault
        /\ posts' = [posts EXCEPT ![admin.post].buttons = AddButton(@, draft.buttons[k])]
        /\ admin' = [admin EXCEPT !.pc = IF k = Len(draft.buttons)
                                           THEN "pnPublish" ELSE "pnButtons"]
     \/ /\ Fault
        /\ admin' = IdleAdmin
        /\ UNCHANGED posts
  /\ UNCHANGED <<now, channels, reply, schedules, statistics, nextScheduleId, schedulerInterval, timers, loaded, calls,
                 botInstance, tick, deliv, draft, sent, failedAttempts>>

\* handlePublishNow up to the end of createPost({status: 'PUBLISHED'}); when
\* createPost throws, the catch replies and the draft stays
HandlePublishNow ==
  /\ AdminIdle
  /\ draft # NoDraft
  /\ \/ /\ NoFault
        /\ Len(posts) < MaxPosts
        /\ CreatePost("PUBLISHED")
        /\ admin' = [pc |-> AfterCreatePost, post |-> Len(posts) + 1]
     \/ /\ Fault
        /\ UNCHANGED <<posts, admin>>
  /\ UNCHANGED <<now, channels, reply, schedules, statistics, nextScheduleId, schedulerInterval, timers, loaded, calls,
                 botInstance, tick, deliv, draft, sent, failedAttempts>>

\* handlePublishNow: publishPostToTelegram(botInstance, post.id)
PublishNowDeliver ==
  /\ admin.pc = "pnPublish"
  /\ CallDelivery(AdminProc, admin.post)
  /\ admin' = [admin EXCEPT !.pc = "pnWait"]
  /\ UNCHANGED <<now, channels, reply, posts, schedules, statistics, nextScheduleId,
                 schedulerInterval, timers, loaded, calls, botInstance, tick, draft, sent,
                 failedAttempts>>

\* handlePublishNow after the engine returned (true or false): the reply,
\* then clearPostDraft
PublishNowDone ==
  /\ admin.pc = "pnWait"
  /\ deliv[AdminProc].pc \in {"retTrue", "retFalse"}
  /\ deliv' = [deliv EXCEPT ![AdminProc] = IdleDeliv]
  /\ admin' = IdleAdmin
  /\ draft' = NoDraft
  /\ UNCHANGED <<now, channels, reply, posts, schedules, statistics, nextScheduleId,
                 schedulerInterval, timers, loaded, calls, botInstance, tick, faults, sent,
                 failedAttempts>>

\* handleSaveDraft: createPost({status: 'DRAFT'}), then clearPostDraft
HandleSaveDraft ==
  /\ AdminIdle
  /\ draft # NoDraft
  /\ \/ /\ NoFault
        /\ Len(posts) < MaxPosts
        /\ CreatePost("DRAFT")
        /\ draft' = NoDraft
     \/ /\ Fault
        /\ UNCHANGED <<posts, draft>>
  /\ UNCHANGED <<now, channels, reply, schedules, statistics, nextScheduleId, schedulerInterval, timers, loaded, calls,
                 botInstance, tick, deliv, admin, sent, failedAttempts>>

\* handleScheduledPost up to the end of createPost({status: 'SCHEDULED'})
HandleScheduledPost ==
  /\ AdminIdle
  /\ draft # NoDraft
  /\ draft.scheduledAt # 0
  /\ \/ /\ NoFault
        /\ Len(posts) < MaxPosts
        /\ CreatePost("SCHEDULED")
        /\ admin' = [pc |-> "spSchedule", post |-> Len(posts) + 1]
     \/ /\ Fault
        /\ UNCHANGED <<posts, admin>>
  /\ UNCHANGED <<now, channels, reply, schedules, statistics, nextScheduleId, schedulerInterval, timers, loaded, calls,
                 botInstance, tick, deliv, draft, sent, failedAttempts>>

\* handleScheduleInTwoMinutes: scheduledAt = now + 2 minutes, then
\* handleScheduledPost
HandleScheduleInTwoMinutes ==
  /\ AdminIdle
  /\ draft # NoDraft
  /\ draft' = [draft EXCEPT !.scheduledAt = now + TwoMinutes]
  /\ \/ /\ NoFault
        /\ Len(posts) < MaxPosts
        /\ CreatePost("SCHEDULED")
        /\ admin' = [pc |-> "spSchedule", post |-> Len(posts) + 1]
     \/ /\ Fault
        /\ UNCHANGED <<posts, admin>>
  /\ UNCHANGED <<now, channels, reply, schedules, statistics, nextScheduleId, schedulerInterval, timers, loaded, calls,
                 botInstance, tick, deliv, sent, failedAttempts>>

\* the dispatch with the two tests in the other order
StatusFirst(d) ==
  IF d.status = "DRAFT" THEN "draft"
  ELSE IF d.scheduledAt # 0 THEN "schedule"
  ELSE "publish"

\* handleConfirm's choice: draft.scheduledAt, else draft.status === 'DRAFT',
\* else immediate
ConfirmIntent(d) ==
  IF d.scheduledAt # 0 THEN "schedule"
  ELSE IF d.status = "DRAFT" THEN "draft"
  ELSE "publish"

\* handleConfirm: the handler of the choice is awaited, nothing follows it
HandleConfirm ==
  IF ConfirmIntent(draft) = "schedule" THEN HandleScheduledPost
  ELSE IF ConfirmIntent(draft) = "draft" THEN HandleSaveDraft
  ELSE HandlePublishNow

\* schedulePost: prisma.schedule.create; post_id is unique, so a second row
\* for the post throws.  A throw ends the calling handler in its catch.
ScheduleCreate(nextPc) ==
  \/ /\ NoFault
     /\ ScheduleOfPost(admin.post) = {}
     /\ nextScheduleId <= MaxSchedules
     /\ schedules' = schedules \cup
          {NewSchedule(nextScheduleId, admin.post, draft.scheduledAt)}
     /\ nextScheduleId' = nextScheduleId + 1
     /\ admin' = [admin EXCEPT !.pc = nextPc]
     /\ UNCHANGED draft
  \/ /\ \/ ScheduleOfPost(admin.post) # {} /\ NoFault
        \/ Fault
     /\ admin' = IdleAdmin
     /\ draft' = IF admin.pc = "esCreate" THEN NoDraft ELSE draft
     /\ UNCHANGED <<schedules, nextScheduleId>>

\* schedulePost: updatePost(postId, {status: SCHEDULED}); back in the handler
\* the draft is cleared
ScheduleStatus ==
  \/ /\ NoFault
     /\ posts' = [posts EXCEPT ![admin.post].status = "SCHEDULED"]
     /\ draft' = NoDraft
  \/ /\ Fault
     /\ draft' = IF admin.pc = "esStatus" THEN NoDraft ELSE draft
     /\ UNCHANGED posts

\* handleScheduledPost: schedulePost(post.id, scheduledAt), first store call
ScheduledPostCreate ==
  /\ admin.pc = "spSchedule"
  /\ ScheduleCreate("spStatus")
  /\ UNCHANGED <<now, channels, reply, posts, statistics, schedulerInterval, timers, loaded, calls, botInstance, tick,
                 deliv, sent, failedAttempts>>

\* handleScheduledPost: schedulePost, second store call; clearPostDraft
ScheduledPostStatus ==
  /\ admin.pc = "spStatus"
  /\ ScheduleStatus
  /\ admin' = IdleAdmin
  /\ UNCHANGED <<now, channels, reply, schedules, statistics, nextScheduleId, schedulerInterval, timers, loaded, calls,
                 botInstance, tick, deliv, sent, failedAttempts>>

\* post.media.map(m => ({fileId, fileType, fileSize, caption, position}))
SessionMediaFile(m) ==
  [fileId |-> m.file_id, fileType |-> m.file_type, caption |-> m.caption,
   position |-> m.position]

\* loadPostForEdit: the draft written to the session for post p
EditDraft(p) ==
  [id |-> p, status |-> posts[p].status,
   scheduledAt |->
     IF ScheduleOfPost(p) = {} THEN 0
     ELSE (CHOOSE s \in ScheduleOfPost(p) : TRUE).scheduled_at,
   text |-> posts[p].text,
   mediaFiles |-> [k \in DOMAIN posts[p].media |->
                    SessionMediaFile(posts[p].media[k])],
   buttons |-> posts[p].buttons,
   channelId |-> 1, step |-> "preview",
   awaiting |-> draft.awaiting]

\* loadPostForEdit: only DRAFT and SCHEDULED posts are loaded; getPostById
\* returns null when the store throws
LoadPostForEdit(p) ==
  /\ AdminIdle
  /\ p \in 1..Len(posts)
  /\ \/ /\ NoFault
        /\ posts[p].status \in {"DRAFT", "SCHEDULED"}
        /\ draft' = EditDraft(p)
     \/ /\ Fault
        /\ UNCHANGED draft
  /\ UNCHANGED <<now, channels, reply, posts, schedules, statistics, nextScheduleId,
                 schedulerInterval, timers, loaded, calls, botInstance, tick, deliv, admin, sent,
                 failedAttempts>>

\* the frame of handleSaveEdit after updatePost and the media and button
\* rewrites: on to the schedule when the draft has a time, else done
AfterEditPost ==
  IF draft.scheduledAt # 0 THEN [pc |-> "esDelete", post |-> draft.id]
  ELSE IdleAdmin

\* handleSaveEdit up to the end of updatePost(draft.id, {text, status:
\* draft.status}); the caller clears the draft once handleSaveEdit returned
HandleSaveEdit ==
  /\ AdminIdle
  /\ draft # NoDraft
  /\ draft.id # 0
  /\ \/ /\ NoFault
        /\ posts' = [posts EXCEPT ![draft.id].status = draft.status]
        /\ admin' = AfterEditPost
        /\ draft' = IF draft.scheduledAt # 0 THEN draft ELSE NoDraft
     \/ /\ Fault
        /\ draft' = NoDraft
        /\ UNCHANGED <<posts, admin>>
  /\ UNCHANGED <<now, channels, reply, schedules, statistics, nextScheduleId, schedulerInterval, timers, loaded, calls,
                 botInstance, tick, deliv, sent, failedAttempts>>

\* handleSaveEdit: prisma.schedule.deleteMany({where: {post_id}})
SaveEditDelete ==
  /\ admin.pc = "esDelete"
  /\ \/ /\ NoFault
        /\ schedules' = schedules \ ScheduleOfPost(admin.post)
        /\ admin' = [admin EXCEPT !.pc = "esCreate"]
        /\ UNCHANGED draft
     \/ /\ Fault
        /\ admin' = IdleAdmin
        /\ draft' = NoDraft
        /\ UNCHANGED schedules
  /\ UNCHANGED <<now, channels, reply, posts, statistics, nextScheduleId, schedulerInterval, timers, loaded, calls,
                 botInstance, tick, deliv, sent, failedAttempts>>

\* handleSaveEdit: schedulePost(draft.id, draft.scheduledAt), first store call
SaveEditCreate ==
  /\ admin.pc = "esCreate"
  /\ ScheduleCreate("esStatus")
  /\ UNCHANGED <<now, channels, reply, posts, statistics, schedulerInterval, timers, loaded, calls, botInstance, tick,
                 deliv, sent, failedAttempts>>

\* handleSaveEdit: schedulePost, second store call; the caller clears the draft
SaveEditStatus ==
  /\ admin.pc = "esStatus"
  /\ ScheduleStatus
  /\ admin' = IdleAdmin
  /\ UNCHANGED <<now, channels, reply, schedules, statistics, nextScheduleId, schedulerInterval, timers, loaded, calls,
                 botInstance, tick, deliv, sent, failedAttempts>>

\* ---- the clock ----------------------------------------------------------
ClockAdvance ==
  /\ now < MaxTime
  /\ now' = now + 1
  /\ UNCHANGED <<channels, reply, posts, schedules, statistics, nextScheduleId, schedulerInterval, timers, loaded, calls,
                 botInstance, tick, deliv, admin, draft, faults, sent,
                 failedAttempts>>

Next ==
  \/ ClockAdvance
  \/ StartScheduler(1)
  \/ StopScheduler
  \/ IntervalTick(1)
  \/ TriggerSchedulerCheck(1)
  \/ \E t \in TickIds : TickDeliver(t)
  \/ \E t \in TickIds : TickSuccess(t)
  \/ \E t \in TickIds : TickFailure(t)
  \/ \E t \in TickIds : TickCatchSchedule(t)
  \/ \E t \in TickIds : TickCatchPost(t)
  \/ \E c \in Procs : DeliverSend(c)
  \/ \E c \in Procs : DeliverSetPublished(c)
  \/ \E c \in Procs : DeliverSetMessageId(c)
  \/ \E c \in Procs : DeliverSetFailed(c)
  \/ NewpostCommand
  \/ \E t \in 1..MaxTime : SelectTime(t)
  \/ HandleCancel
  \/ HandlePublishNow
  \/ PublishNowDeliver
  \/ PublishNowDone
  \/ HandleSaveDraft
  \/ HandleScheduledPost
  \/ HandleScheduleInTwoMinutes
  \/ ScheduledPostCreate
  \/ ScheduledPostStatus
  \/ \E p \in 1..MaxPosts : LoadPostForEdit(p)
  \/ HandleSaveEdit
  \/ SaveEditDelete
  \/ SaveEditCreate
  \/ SaveEditStatus

Spec == Init /\ [][Next]_vars

\* Invocations may overlap (a tick longer than the interval, a manual trigger
\* during a tick); the admin only commits scheduled posts and the store does
\* not throw.
InitReliable ==
  /\ now = 1
  /\ channels = AllActive
  /\ reply = NoReply
  /\ posts = <<>>
  /\ schedules = {}
  /\ statistics = {}
  /\ nextScheduleId = 1
  /\ schedulerInterval = FALSE
  /\ timers = 0
  /\ loaded = NoPost
  /\ calls = <<>>
  /\ botInstance = FALSE
  /\ tick = [t \in TickIds |-> IdleTick]
  /\ deliv = [c \in Procs |-> IdleDeliv]
  /\ admin = IdleAdmin
  /\ draft = NoDraft
  /\ faults = MaxFaults
  /\ sent = <<>>
  /\ failedAttempts = [id \in 1..MaxSchedules |-> 0]

NextOverlap ==
  \/ ClockAdvance
  \/ StartScheduler(MaxTicks)
  \/ IntervalTick(MaxTicks)
  \/ TriggerSchedulerCheck(MaxTicks)
  \/ \E t \in TickIds : TickDeliver(t)
  \/ \E t \in TickIds : TickSuccess(t)
  \/ \E t \in TickIds : TickFailure(t)
  \/ \E t \in TickIds : TickCatchSchedule(t)
  \/ \E t \in TickIds : TickCatchPost(t)
  \/ \E c \in TickIds : DeliverSend(c)
  \/ \E c \in TickIds : DeliverSetPublished(c)
  \/ \E c \in TickIds : DeliverSetMessageId(c)
  \/ \E c \in TickIds : DeliverSetFailed(c)
  \/ NewpostCommand
  \/ \E t \in 1..MaxTime : SelectTime(t)
  \/ HandleScheduledPost
  \/ ScheduledPostCreate
  \/ ScheduledPostStatus

SpecOverlap == InitReliable /\ [][NextOverlap]_vars

\* One invocation at a time (every invocation returns before the next one is
\* started), the store answering every call, scheduled posts only.
NextSerial ==
  \/ ClockAdvance
  \/ StartScheduler(1)
  \/ StopScheduler
  \/ IntervalTick(1)
  \/ TriggerSchedulerCheck(1)
  \/ \E t \in TickIds : TickDeliver(t)
  \/ \E t \in TickIds : TickSuccess(t)
  \/ \E t \in TickIds : TickFailure(t)
  \/ \E t \in TickIds : TickCatchSchedule(t)
  \/ \E t \in TickIds : TickCatchPost(t)
  \/ \E c \in TickIds : DeliverSend(c)
  \/ \E c \in TickIds : DeliverSetPublished(c)
  \/ \E c \in TickIds : DeliverSetMessageId(c)
  \/ \E c \in TickIds : DeliverSetFailed(c)
  \/ NewpostCommand
  \/ \E t \in 1..MaxTime : SelectTime(t)
  \/ HandleScheduledPost
  \/ ScheduledPostCreate
  \/ ScheduledPostStatus

SpecSerial == InitReliable /\ [][NextSerial]_vars

\* shutdown(signal) after its stopScheduler() call: bot.stop and the
\* disconnects are awaited, none of them waits for an invocation in flight,
\* then process.exit ends the process.  What lived in its memory is gone
\* (frames, the module's bot reference and handle); the store, the channel
\* and the session draft (kept in Redis) stay.  start() may run again.
ProcessExit ==
  /\ botInstance
  /\ ~schedulerInterval
  /\ Len(sent) < MaxSent
  /\ botInstance' = FALSE
  /\ tick' = [t \in TickIds |-> IdleTick]
  /\ deliv' = [c \in Procs |-> IdleDeliv]
  /\ admin' = IdleAdmin
  /\ UNCHANGED <<now, channels, reply, posts, schedules, statistics, nextScheduleId,
                 schedulerInterval, timers, loaded, calls, draft, faults, sent, failedAttempts>>

\* The process with its shutdown: the scheduler is started by start() and
\* stopped by shutdown only, invocations do not overlap, the store answers
\* every call.
NextShutdown ==
  \/ ClockAdvance
  \/ StartScheduler(1)
  \/ StopScheduler
  \/ ProcessExit
  \/ IntervalTick(1)
  \/ \E t \in TickIds : TickDeliver(t)
  \/ \E t \in TickIds : TickSuccess(t)
  \/ \E t \in TickIds : TickFailure(t)
  \/ \E c \in TickIds : DeliverSend(c)
  \/ \E c \in TickIds : DeliverSetPublished(c)
  \/ \E c \in TickIds : DeliverSetMessageId(c)
  \/ \E c \in TickIds : DeliverSetFailed(c)
  \/ NewpostCommand
  \/ \E t \in 1..MaxTime : SelectTime(t)
  \/ HandleScheduledPost
  \/ ScheduledPostCreate
  \/ ScheduledPostStatus

SpecShutdown == InitReliable /\ [][NextShutdown]_vars

\* The publish-now path alone: the admin composes and publishes at once, the
\* store may throw, the platform may reject; nothing else writes the posts.
NextPublishNow ==
  \/ ClockAdvance
  \/ NewpostCommand
  \/ HandleCancel
  \/ HandlePublishNow
  \/ PublishNowDeliver
  \/ PublishNowDone
  \/ DeliverSend(AdminProc)
  \/ DeliverSetPublished(AdminProc)
  \/ DeliverSetMessageId(AdminProc)
  \/ DeliverSetFailed(AdminProc)

SpecPublishNow == Init /\ [][NextPublishNow]_vars

\* composing and confirming at the preview, with the handlers Confirm
\* dispatches to run to their end
NextConfirm ==
  \/ ClockAdvance
  \/ NewpostCommand
  \/ \E t \in 1..MaxTime : SelectTime(t)
  \/ HandleConfirm
  \/ ScheduledPostCreate
  \/ ScheduledPostStatus
  \/ PublishNowDeliver
  \/ PublishNowDone
  \/ DeliverSend(AdminProc)
  \/ DeliverSetPublished(AdminProc)
  \/ DeliverSetMessageId(AdminProc)
  \/ DeliverSetFailed(AdminProc)
  \/ \E p \in 1..MaxPosts : LoadPostForEdit(p)
  \/ HandleCancel

SpecConfirm == Init /\ [][NextConfirm]_vars

\* the drafts the media and button steps build from the admin's messages
MediaFilesOf(msgs) ==
  [k \in DOMAIN msgs |->
     [fileId |-> msgs[k].file_id, fileType |-> UploadMediaType(msgs[k].type),
      caption |-> msgs[k].caption, position |-> k - 1]]
ButtonsOf(msgs) ==
  [k \in DOMAIN msgs |->
     [text |-> msgs[k].text, url |-> msgs[k].url, row |-> 0, position |-> k - 1]]
ComposedDrafts ==
  {[id |-> 0, status |-> "DRAFT", scheduledAt |-> 0, text |-> "body",
    mediaFiles |-> MediaFilesOf(u), buttons |-> ButtonsOf(b), channelId |-> 1,
    step |-> "time", awaiting |-> "none"] :
     u \in UNION {[1..n -> Uploads] : n \in 0..MaxMedia},
     b \in UNION {[1..n -> ButtonInputs] : n \in 0..MaxButtons}}

\* a composed draft at the time step, the store reliable
InitPublishContent ==
  /\ now = 1
  /\ channels = AllActive
  /\ reply = NoReply
  /\ posts = <<>>
  /\ schedules = {}
  /\ statistics = {}
  /\ nextScheduleId = 1
  /\ schedulerInterval = FALSE
  /\ timers = 0
  /\ loaded = NoPost
  /\ calls = <<>>
  /\ botInstance = FALSE
  /\ tick = [t \in TickIds |-> IdleTick]
  /\ deliv = [c \in Procs |-> IdleDeliv]
  /\ admin = IdleAdmin
  /\ draft \in ComposedDrafts
  /\ faults = MaxFaults
  /\ sent = <<>>
  /\ failedAttempts = [id \in 1..MaxSchedules |-> 0]

\* publish-now of the composed draft, from createPost to clearPostDraft
NextPublishContent ==
  \/ HandlePublishNow
  \/ PublishNowAddMedia
  \/ PublishNowAddButton
  \/ PublishNowDeliver
  \/ PublishNowDone
  \/ DeliverSend(AdminProc)
  \/ DeliverSetPublished(AdminProc)
  \/ DeliverSetMessageId(AdminProc)
  \/ DeliverSetFailed(AdminProc)

SpecPublishContent == InitPublishContent /\ [][NextPublishContent]_vars

\* any Channel table, no composition under way
InitChannelStep ==
  /\ now = 1
  /\ channels \in [ChannelIds -> {"active", "inactive", "missing"}]
  /\ reply = NoReply
  /\ posts = <<>>
  /\ schedules = {}
  /\ statistics = {}
  /\ nextScheduleId = 1
  /\ schedulerInterval = FALSE
  /\ timers = 0
  /\ loaded = NoPost
  /\ calls = <<>>
  /\ botInstance = FALSE
  /\ tick = [t \in TickIds |-> IdleTick]
  /\ deliv = [c \in Procs |-> IdleDeliv]
  /\ admin = IdleAdmin
  /\ draft = NoDraft
  /\ faults = 0
  /\ sent = <<>>
  /\ failedAttempts = [id \in 1..MaxSchedules |-> 0]

\* the channel step of the composition
NextChannelStep ==
  \/ NewpostChannelStep
  \/ \E c \in ChannelIds : DeactivateChannel(c)
  \/ \E c \in ChannelIds : HandleChannelSelection(c)
  \/ HandleCancel

SpecChannelStep == InitChannelStep /\ [][NextChannelStep]_vars

\* the button step of the composition
NextButtonStep ==
  \/ NewpostCommand
  \/ HandleButtonAddStep
  \/ \E msg \in ButtonInputs \cup MalformedButtonInputs : ButtonInput(msg)
  \/ HandleCancel

SpecButtonStep == Init /\ [][NextButtonStep]_vars

\* the media step of the composition
NextMediaStep ==
  \/ NewpostCommand
  \/ HandleMediaAddStep
  \/ \E msg \in Uploads \cup OversizedUploads : HandleMediaUpload(msg)
  \/ HandleCancel

SpecMediaStep == Init /\ [][NextMediaStep]_vars

\* composing, saving a draft, opening a post for editing, and cancelling
NextCancel ==
  \/ ClockAdvance
  \/ NewpostCommand
  \/ \E t \in 1..MaxTime : SelectTime(t)
  \/ HandleSaveDraft
  \/ \E p \in 1..MaxPosts : LoadPostForEdit(p)
  \/ HandleCancel
  \/ CancelCommand
  \/ CancelCommandDone

SpecCancel == Init /\ [][NextCancel]_vars

\* ---- what the engine sends for a post ------------------------------------

MediaTypes == {"PHOTO", "VIDEO", "DOCUMENT", "ANIMATION"}
\* caption NULL in the store, undefined in an outgoing item
NoCaption == "NULL"
\* replyMarkup = undefined
NoKeyboard == <<>>

\* String(n) of a non-negative integer, as the sequence of its digits
RECURSIVE Digits(_)
Digits(n) == IF n < 10 THEN <<n>> ELSE Digits(n \div 10) \o <<n % 10>>

\* a < b for strings of digits, compared code unit by code unit
RECURSIVE StringLess(_, _)
StringLess(a, b) ==
  IF a = <<>> THEN b # <<>>
  ELSE IF b = <<>> THEN FALSE
  ELSE IF a[1] # b[1] THEN a[1] < b[1]
  ELSE StringLess(Tail(a), Tail(b))

\* Array.prototype.sort() without a comparator: elements are compared as
\* their strings
DefaultSortBefore(x, y) == StringLess(Digits(x), Digits(y))

\* Array.from(buttonsByRow.keys()).sort(): the distinct row indexes in the
\* order the sort leaves them in
RECURSIVE SortedKeys(_)
SortedKeys(K) ==
  IF K = {} THEN <<>>
  ELSE LET first == CHOOSE x \in K : \A y \in K \ {x} : DefaultSortBefore(x, y)
       IN <<first>> \o SortedKeys(K \ {first})

\* rowButtons.sort((a, b) => a.position - b.position): a stable insertion of
\* b into a list sorted by position
RECURSIVE InsertByPosition(_, _)
InsertByPosition(b, sorted) ==
  IF sorted = <<>> THEN <<b>>
  ELSE IF sorted[Len(sorted)].position <= b.position THEN Append(sorted, b)
  ELSE Append(InsertByPosition(b, SubSeq(sorted, 1, Len(sorted) - 1)),
              sorted[Len(sorted)])

RECURSIVE SortByPosition(_)
SortByPosition(q) ==
  IF q = <<>> THEN <<>>
  ELSE InsertByPosition(q[Len(q)], SortByPosition(SubSeq(q, 1, Len(q) - 1)))

\* the buttons of one row, in the order of post.buttons
ButtonsOfRow(buttons, r) == SelectSeq(buttons, LAMBDA b : b.row = r)

\* the inline keyboard of the post: a sequence of rows of buttons; undefined
\* when the post has no buttons
BuildKeyboard(buttons) ==
  IF Len(buttons) = 0 THEN NoKeyboard
  ELSE LET keys == SortedKeys({buttons[k].row : k \in DOMAIN buttons})
       IN [k \in DOMAIN keys |-> SortByPosition(ButtonsOfRow(buttons, keys[k]))]

\* one bot.api call: the method, the text or caption, the items of a media
\* group, the keyboard
ApiCall(method, text, items, keyboard) ==
  [method |-> method, text |-> text, media |-> items, reply_markup |-> keyboard]

\* media.caption || x
CaptionOr(m, x) == IF m.caption \in {NoCaption, ""} THEN x ELSE m.caption

\* the switch of the single-media branch
SendMethod(fileType) ==
  CASE fileType = "PHOTO" -> "sendPhoto"
    [] fileType = "VIDEO" -> "sendVideo"
    [] fileType = "DOCUMENT" -> "sendDocument"
    [] fileType = "ANIMATION" -> "sendAnimation"

\* the switch of the media-group branch: an animation goes as a document
GroupItemType(fileType) ==
  CASE fileType = "PHOTO" -> "photo"
    [] fileType = "VIDEO" -> "video"
    [] fileType = "DOCUMENT" -> "document"
    [] fileType = "ANIMATION" -> "document"

\* every item of a group with the caption stored for it
OwnCaption(text, index, m) == CaptionOr(m, NoCaption)

\* index === 0 ? post.text : (media.caption || undefined), index from 1 here
GroupCaption(text, index, m) ==
  IF index = 1 THEN text ELSE CaptionOr(m, NoCaption)

\* a group that leaves the keyboard out
NoFollowUp(keyboard) == <<>>

\* if (replyMarkup) sendMessage(channelId, arrow, {reply_markup})
KeyboardFollowUp(keyboard) ==
  IF keyboard # NoKeyboard THEN <<ApiCall("sendMessage", "arrow", <<>>, keyboard)>>
  ELSE <<>>

\* the bot.api calls of publishPostToTelegram for post p, in order
SendCalls(p) ==
  LET keyboard == BuildKeyboard(p.buttons) IN
  IF Len(p.media) = 0
    THEN <<ApiCall("sendMessage", p.text, <<>>, keyboard)>>
  ELSE IF Len(p.media) = 1
    THEN <<ApiCall(SendMethod(p.media[1].file_type), CaptionOr(p.media[1], p.text),
                   <<>>, keyboard)>>
  ELSE <<ApiCall("sendMediaGroup", NoCaption,
                 [k \in DOMAIN p.media |->
                    [type |-> GroupItemType(p.media[k].file_type),
                     caption |-> GroupCaption(p.text, k, p.media[k])]],
                 NoKeyboard)>>
       \o KeyboardFollowUp(keyboard)

\* media: {orderBy: {position: 'asc'}}: up to MaxMedia items
MediaLists ==
  UNION {[1..n -> [file_type : MediaTypes, caption : Captions \cup {NoCaption}]]
           : n \in 0..MaxMedia}

\* buttons: {orderBy: [{row: 'asc'}, {position: 'asc'}]}: the lists of up to
\* MaxButtons buttons of distinct (row, position), in the order of the query
ButtonRecords == [row : ButtonRows, position : ButtonPositions]
ButtonBefore(a, b) ==
  a.row < b.row \/ (a.row = b.row /\ a.position < b.position)
ButtonLists ==
  {q \in UNION {[1..n -> ButtonRecords] : n \in 0..MaxButtons} :
     \A j, k \in DOMAIN q : j < k => ButtonBefore(q[j], q[k])}

InitRender ==
  /\ now = 1
  /\ channels = AllActive
  /\ reply = NoReply
  /\ posts = <<>>
  /\ schedules = {}
  /\ statistics = {}
  /\ nextScheduleId = 1
  /\ schedulerInterval = FALSE
  /\ timers = 0
  /\ botInstance = TRUE
  /\ tick = [t \in TickIds |-> IdleTick]
  /\ deliv = [c \in Procs |-> IdleDeliv]
  /\ admin = IdleAdmin
  /\ draft = NoDraft
  /\ faults = 0
  /\ sent = <<>>
  /\ failedAttempts = [id \in 1..MaxSchedules |-> 0]
  /\ loaded \in [text : {"body"}, media : MediaLists, buttons : ButtonLists]
  /\ calls = <<>>

\* publishPostToTelegram from the loaded post to its last bot.api call
Render ==
  /\ calls = <<>>
  /\ calls' = SendCalls(loaded)
  /\ UNCHANGED <<now, channels, reply, posts, schedules, statistics, nextScheduleId,
                 schedulerInterval, timers, loaded, botInstance, tick, deliv,
                 admin, draft, faults, sent, failedAttempts>>

NextRender == Render

SpecRender == InitRender /\ [][NextRender]_vars

\* ---- the input handlers of the composition -------------------------------

\* a few text messages: plain, blank, too long, and with a tag left open
SampleTexts ==
  [length : TextLengths, blank : {FALSE},
   tags : {<<>>, <<[close |-> FALSE, name |-> [letters |-> "b", rest |-> ""],
                   selfClosing |-> FALSE]>>}]
    \cup [length : TextLengths, blank : {TRUE}, tags : {<<>>}]

\* a text message arrives: the session middleware has read the session and
\* the update is on its way to the handlers of message:text
TextMessage(t) ==
  /\ AdminIdle
  /\ admin' = [pc |-> "textMessage", post |-> 0, text |-> t]
  /\ UNCHANGED <<now, channels, reply, posts, schedules, statistics, nextScheduleId,
                 schedulerInterval, timers, loaded, calls, botInstance, tick, deliv, draft, faults,
                 sent, failedAttempts>>

\* the composition after the channel step: the text has been asked for and
\* is awaited
InitInput ==
  /\ now = 1
  /\ channels = AllActive
  /\ reply = [kind |-> "textInput"]
  /\ posts = <<>>
  /\ schedules = {}
  /\ statistics = {}
  /\ nextScheduleId = 1
  /\ schedulerInterval = FALSE
  /\ timers = 0
  /\ loaded = NoPost
  /\ calls = <<>>
  /\ botInstance = FALSE
  /\ tick = [t \in TickIds |-> IdleTick]
  /\ deliv = [c \in Procs |-> IdleDeliv]
  /\ admin = IdleAdmin
  /\ draft = [NoDraft EXCEPT !.status = "DRAFT", !.step = "text", !.channelId = 1,
                             !.text = NoText, !.awaiting = "text"]
  /\ faults = 0
  /\ sent = <<>>
  /\ failedAttempts = [id \in 1..MaxSchedules |-> 0]

\* the three input handlers, each called with the messages of its kind, and
\* the buttons that open the media and the button input
NextInputHandlers ==
  \/ \E t \in SampleTexts : TextMessage(t)
  \/ TextInput
  \/ HandleMediaAddStep
  \/ \E msg \in {m \in Uploads : m.type = "photo"} \cup OversizedUploads :
       HandleMediaUpload(msg)
  \/ HandleButtonAddStep
  \/ \E msg \in {m \in ButtonInputs : m.text = "x"} \cup MalformedButtonInputs :
       ButtonInput(msg)

SpecInputHandlers == InitInput /\ [][NextInputHandlers]_vars

\* the session's TTL lapses: the key is gone from the store, and the next
\* update starts from the initial session, without postDraft and without
\* awaitingInput
SessionExpires ==
  /\ AdminIdle
  /\ draft.status # "NONE"
  /\ draft' = NoDraft
  /\ UNCHANGED <<now, channels, reply, posts, schedules, statistics, nextScheduleId,
                 schedulerInterval, timers, loaded, calls, botInstance, tick, deliv, admin, faults,
                 sent, failedAttempts>>

\* the text and media steps of a composition whose session may lapse: text
\* messages go to the text handler, media messages to the media handler
NextSessionExpiry ==
  \/ \E t \in SampleTexts : TextMessage(t)
  \/ TextInput
  \/ HandleMediaAddStep
  \/ \E msg \in {m \in Uploads : m.type = "photo"} : HandleMediaUpload(msg)
  \/ HandleButtonAddStep
  \/ SessionExpires

SpecSessionExpiry == InitInput /\ [][NextSessionExpiry]_vars

\* ---- the pickers followed by the commit -----------------------------------

\* the Confirm button of the preview message
ConfirmAtPreview == reply.kind = "preview" /\ HandleConfirm

\* the date, hour and minute selection on one day, then Confirm at the preview
NextScheduleCommit ==
  \/ HandleScheduleStep
  \/ \E month \in 1..MaxMonths : HandleCalendarNavigation(month)
  \/ \E day \in Days : HandleCalendarCallback(day)
  \/ \E hour \in Hours : HandleTimeCallback(hour)
  \/ HandleTimeBack
  \/ \E minute \in 0..(MinutesPerHour - 1) : HandleMinuteCallback(minute)
  \/ ConfirmAtPreview
  \/ ScheduledPostCreate
  \/ ScheduledPostStatus

\* the time step on the first day, the store answering every call
InitScheduleCommit ==
  /\ now \in {TimeOf(1, h, m) : h \in {0, HoursPerDay - 1}, m \in {0, 7}}
  /\ channels = AllActive
  /\ reply = NoReply
  /\ posts = <<>>
  /\ schedules = {}
  /\ statistics = {}
  /\ nextScheduleId = 1
  /\ schedulerInterval = FALSE
  /\ timers = 0
  /\ loaded = NoPost
  /\ calls = <<>>
  /\ botInstance = FALSE
  /\ tick = [t \in TickIds |-> IdleTick]
  /\ deliv = [c \in Procs |-> IdleDeliv]
  /\ admin = IdleAdmin
  /\ draft = TimeStepDraft
  /\ faults = MaxFaults
  /\ sent = <<>>
  /\ failedAttempts = [id \in 1..MaxSchedules |-> 0]

SpecScheduleCommit == InitScheduleCommit /\ [][NextScheduleCommit]_vars

\* ---- duplication of a post -------------------------------------------------

\* the copy that leaves the caption out
WithoutCaption(m) ==
  [fileId |-> m.file_id, fileType |-> m.file_type, caption |-> NoCaption]

\* the arguments duplicatePost passes to addMedia for a Media row:
\* file_id, file_type, caption || undefined
CopiedMedia(m) ==
  [fileId |-> m.file_id, fileType |-> m.file_type, caption |-> CaptionOr(m, NoCaption)]

\* where duplicatePost goes on after its loop over original.media
AfterCopyMedia(original) ==
  IF original.buttons # <<>> THEN "dupButtons" ELSE "dupDone"

\* handlePostDuplication into duplicatePost: getPostById(postId), then
\* prisma.post.create with the original's text and status DRAFT
HandlePostDuplication(p) ==
  /\ AdminIdle
  /\ p \in 1..Len(posts)
  /\ \/ /\ NoFault
        /\ Len(posts) < MaxPosts
        /\ loaded' = [id |-> p, post |-> posts[p]]
        /\ posts' = Append(posts, [status |-> "DRAFT", telegram_message_id |-> 0,
                                   published_at |-> 0, text |-> posts[p].text,
                                   media |-> <<>>, buttons |-> <<>>])
        /\ admin' = [pc |-> IF posts[p].media # <<>> THEN "dupMedia"
                              ELSE AfterCopyMedia(posts[p]),
                     post |-> Len(posts) + 1]
     \/ /\ Fault
        /\ UNCHANGED <<loaded, posts, admin>>
  /\ UNCHANGED <<now, channels, reply, schedules, statistics, nextScheduleId, schedulerInterval, timers, calls,
                 botInstance, tick, deliv, draft, sent, failedAttempts>>

\* duplicatePost, for (const media of original.media) await addMedia: one
\* iteration
DuplicateAddMedia ==
  /\ admin.pc = "dupMedia"
  /\ LET k == Len(posts[admin.post].media) + 1 IN
     \/ /\ NoFault
        /\ posts' = [posts EXCEPT ![admin.post].media =
                       AddMedia(@, CopiedMedia(loaded.post.media[k]))]
        /\ admin' = [admin EXCEPT !.pc = IF k = Len(loaded.post.media)
                                           THEN AfterCopyMedia(loaded.post)
                                           ELSE "dupMedia"]
     \/ /\ Fault
        /\ admin' = IdleAdmin
        /\ UNCHANGED posts
  /\ UNCHANGED <<now, channels, reply, schedules, statistics, nextScheduleId, schedulerInterval, timers, loaded, calls,
                 botInstance, tick, deliv, draft, sent, failedAttempts>>

\* duplicatePost, for (const button of original.buttons) await addButton: one
\* iteration
DuplicateAddButton ==
  /\ admin.pc = "dupButtons"
  /\ LET k == Len(posts[admin.post].buttons) + 1 IN
     \/ /\ NoFault
        /\ posts' = [posts EXCEPT ![admin.post].buttons =
                       AddButton(@, loaded.post.buttons[k])]
        /\ admin' = [admin EXCEPT !.pc = IF k = Len(loaded.post.buttons)
                                           THEN "dupDone" ELSE "dupButtons"]
     \/ /\ Fault
        /\ admin' = IdleAdmin
        /\ UNCHANGED posts
  /\ UNCHANGED <<now, channels, reply, schedules, statistics, nextScheduleId, schedulerInterval, timers, loaded, calls,
                 botInstance, tick, deliv, draft, sent, failedAttempts>>

\* handlePostDuplication after duplicatePost returned: the two replies
HandlePostDuplicationDone ==
  /\ admin.pc = "dupDone"
  /\ admin' = IdleAdmin
  /\ loaded' = NoPost
  /\ UNCHANGED <<now, channels, reply, posts, schedules, statistics, nextScheduleId, schedulerInterval, timers, calls,
                 botInstance, tick, deliv, draft, faults, sent, failedAttempts>>

\* a composed draft is published, and posts of the store are duplicated
NextDuplicate ==
  \/ NextPublishContent
  \/ \E p \in 1..MaxPosts : HandlePostDuplication(p)
  \/ DuplicateAddMedia
  \/ DuplicateAddButton
  \/ HandlePostDuplicationDone

SpecDuplicate == InitPublishContent /\ [][NextDuplicate]_vars

\* ---- claims --------------------------------------------------------------

\* the record a frame is at has been handled: the frame moves to the next
\* record or returns
LeavesRecord(t) ==
  /\ tick[t].pc \notin {"idle", "loop"}
  /\ tick'[t].pc \in {"idle", "loop"}

\* no invocation is handling a record of Schedule id
Settled(id) ==
  \A t \in TickIds : tick[t].pc \in {"idle", "loop"} \/ Current(tick[t]).id # id

\* C1: when the delivery engine returns false for a due PENDING Schedule and
\* the attempts counter after the increment is below the retry ceiling, the
\* status update of the tick leaves the Schedule PENDING.
C1_FailureBelowCeilingStaysPending ==
  [][\A t \in TickIds :
       ( /\ tick[t].pc = "deliver"
         /\ deliv[t].pc = "retFalse"
         /\ tick'[t].pc # "deliver"
         /\ Current(tick[t]).attempts + 1 < RetryCeiling )
       => \A s \in schedules' :
            s.id = Current(tick[t]).id => s.status = "PENDING"]_vars

\* C2: a Schedule is FAILED only if its attempts counter has reached the retry
\* ceiling, and the counter never exceeds the ceiling.
C2_FailedOnlyAtCeiling ==
  \A s \in schedules :
    /\ s.attempts <= RetryCeiling
    /\ s.status = "FAILED" => s.attempts = RetryCeiling

\* C3: once a Schedule is FAILED the row stays as it is (status and attempts
\* never change) and no invocation calls the delivery engine for its post.
C3_FailedIsPermanent ==
  [][\A s \in schedules :
       s.status = "FAILED" =>
         /\ \E r \in schedules' :
              r.id = s.id /\ r.status = s.status /\ r.attempts = s.attempts
         /\ \A t \in TickIds :
              (deliv[t].pc = "idle" /\ deliv'[t].pc # "idle")
                => deliv'[t].post # s.post_id]_vars

\* C4: the attempts counter of a Schedule equals the number of failed delivery
\* attempts made for it, whenever no invocation is in the middle of handling
\* the row.
C4_AttemptsCountFailures ==
  \A s \in schedules : Settled(s.id) => s.attempts = failedAttempts[s.id]

\* C5: each scheduled post is sent to the platform at most once, and two
\* invocations never handle the same Schedule row at the same time.
C5_AtMostOnceDelivery ==
  /\ \A i, j \in 1..Len(sent) : sent[i] = sent[j] => i = j
  /\ \A t, u \in TickIds :
       (t # u /\ tick[t].pc \notin {"idle", "loop"}
              /\ tick[u].pc \notin {"idle", "loop"})
         => Current(tick[t]).id # Current(tick[u]).id

\* C6: an invocation returns only after the last due record of its list: an
\* exception while one record is handled does not end the invocation before
\* the remaining records.
C6_RemainingDueProcessed ==
  [][\A t \in TickIds :
       (tick[t].pc # "idle" /\ tick'[t].pc = "idle")
         => tick[t].i >= Len(tick[t].due)]_vars

\* C7: a Post has a telegram_message_id if and only if its status is
\* PUBLISHED.  Stated for the states in which no handler and no delivery is
\* between two store calls, where the claim (made for every state) is weakest.
C7_MessageIdIffPublished ==
  (admin.pc = "idle" /\ \A c \in Procs : deliv[c].pc = "idle")
    => \A p \in 1..Len(posts) :
         posts[p].telegram_message_id # 0 <=> posts[p].status = "PUBLISHED"

\* C8: when the delivery engine returned true for a due Schedule, then once
\* the invocation has handled the record the Schedule is PUBLISHED with
\* published_at set and its Post is PUBLISHED with published_at set and
\* telegram_message_id the id the platform returned for that post.
C8_SuccessRecordsPublished ==
  [][\A t \in TickIds :
       ( /\ LeavesRecord(t)
         /\ tick[t].success \/ (tick[t].pc = "deliver" /\ deliv[t].pc = "retTrue") )
       => LET cur == Current(tick[t])
              post == posts'[cur.post_id]
          IN /\ \E s \in schedules' :
                  s.id = cur.id /\ s.status = "PUBLISHED" /\ s.published_at # 0
             /\ post.status = "PUBLISHED"
             /\ post.published_at # 0
             /\ post.telegram_message_id \in 1..Len(sent)
             /\ sent[post.telegram_message_id] = cur.post_id]_vars

\* C9: a post that was delivered (the platform accepted it and the engine
\* recorded the message id) owns a PostStatistics row once the handler or
\* invocation that delivered it has returned.
C9_StatisticsAfterDelivery ==
  (admin.pc = "idle" /\ \A t \in TickIds : tick[t].pc = "idle")
    => \A p \in 1..Len(posts) :
         posts[p].telegram_message_id # 0 => p \in statistics

C11_SequentialAscending ==
  \A t \in TickIds :
    tick[t].pc # "idle" =>
      /\ tick[t].i \in 1..Len(tick[t].due)
      /\ \A j, k \in 1..Len(tick[t].due) :
           j < k => tick[t].due[j].scheduled_at <= tick[t].due[k].scheduled_at
      /\ \A j \in 1..(tick[t].i - 1) :
           /\ RowOf(tick[t].due[j].id).status # "PENDING"
           /\ \A c \in TickIds : deliv[c].post # tick[t].due[j].post_id

\* an invocation is delivering the second of two due records, the first of
\* which had the earlier target time
C11_Witness ==
  \E t \in TickIds :
    /\ tick[t].pc = "deliver"
    /\ tick[t].i = 2
    /\ deliv[t].pc = "send"
    /\ tick[t].due[1].scheduled_at < tick[t].due[2].scheduled_at

\* C12: committing a scheduled draft creates one Post with status SCHEDULED
\* and one Schedule row for it, PENDING with attempts 0; and when the engine
\* returned true for that Schedule in an invocation, then once the invocation
\* has handled the record the Schedule is PUBLISHED and so is the Post (the
\* Post unless a commit or edit-save for it has not returned yet).
C12_ScheduledCommitThenPublished ==
  [][/\ (admin.pc = "spSchedule" /\ admin'.pc = "spStatus") =>
          /\ posts'[admin.post].status = "SCHEDULED"
          /\ \E s \in schedules' :
               /\ ScheduleOfPost(admin.post)' = {s}
               /\ s.status = "PENDING" /\ s.attempts = 0
               /\ s.scheduled_at = draft.scheduledAt
     /\ \A t \in TickIds :
          ( /\ LeavesRecord(t)
            /\ tick[t].success \/ (tick[t].pc = "deliver" /\ deliv[t].pc = "retTrue") )
          => LET cur == Current(tick[t])
             IN /\ \E s \in schedules' : s.id = cur.id /\ s.status = "PUBLISHED"
                /\ \/ posts'[cur.post_id].status = "PUBLISHED"
                   \/ admin'.pc # "idle" /\ admin'.post = cur.post_id]_vars

\* C13: over any sequence of startScheduler and stopScheduler calls at most
\* one recurring timer is registered: exactly one while the module holds a
\* handle, none after stopScheduler; a startScheduler call while the handle
\* is set registers nothing.
C13_AtMostOneTimer ==
  /\ timers <= 1
  /\ schedulerInterval <=> timers = 1

\* stopScheduler has run after a startScheduler: the handle is null again
C13_Witness ==
  /\ botInstance
  /\ ~schedulerInterval
  /\ timers = 0

\* C14: once stopScheduler has returned no new invocation is started by the
\* timer, and an invocation that was in flight runs on: it ends only by
\* returning from its loop after the status update of the record it was at.
C14_StopLetsInFlightFinish ==
  [][\A t \in TickIds :
       /\ (tick[t].pc = "idle" /\ tick'[t].pc # "idle") => timers' = 1
       /\ (tick[t].pc # "idle" /\ tick'[t].pc = "idle") =>
            /\ tick[t].i = Len(tick[t].due)
            /\ \E s \in schedules' :
                 s.id = Current(tick[t]).id /\ s.status # "PENDING"]_vars

\* C15: publishPostToTelegram never leaves by an exception, and it returns
\* true only after the platform accepted the post and the post was recorded
\* PUBLISHED with the message id the platform returned; after any failure
\* (post not read, send rejected, an update that threw, the FAILED update
\* that threw) it returns false.
C15_EngineReturnsBoolean ==
  \A c \in Procs :
    /\ deliv[c].pc # "threw"
    /\ deliv[c].pc = "retTrue" =>
         /\ deliv[c].msg \in 1..Len(sent)
         /\ sent[deliv[c].msg] = deliv[c].post
         /\ posts[deliv[c].post].status = "PUBLISHED"
         /\ posts[deliv[c].post].telegram_message_id = deliv[c].msg
    /\ deliv[c].pc = "retFalse" =>
         posts[deliv[c].post].telegram_message_id = 0

\* the engine has returned false although the platform had accepted the post:
\* a store update after the send threw
C15_Witness ==
  /\ deliv[AdminProc].pc = "retFalse"
  /\ \E k \in 1..Len(sent) : sent[k] = deliv[AdminProc].post
  /\ faults > 0

\* the keyboard the claims expect a call to carry: present iff the post has
\* buttons
CarriesKeyboard(call) == (call.reply_markup # NoKeyboard) <=> (loaded.buttons # <<>>)

\* C16: the engine uses one send strategy, chosen by the media count: no
\* media, one text message with the keyboard; one media item, one message of
\* that item's type with the keyboard; two or more, one media group of all
\* items without keyboard, followed by one message with the keyboard iff the
\* post has buttons.
C16_OneStrategyByMediaCount ==
  calls # <<>> =>
    LET n == Len(loaded.media) IN
    /\ n = 0 =>
         /\ Len(calls) = 1
         /\ calls[1].method = "sendMessage"
         /\ calls[1].text = loaded.text
         /\ CarriesKeyboard(calls[1])
    /\ n = 1 =>
         /\ Len(calls) = 1
         /\ \/ loaded.media[1].file_type = "PHOTO" /\ calls[1].method = "sendPhoto"
            \/ loaded.media[1].file_type = "VIDEO" /\ calls[1].method = "sendVideo"
            \/ loaded.media[1].file_type = "DOCUMENT" /\ calls[1].method = "sendDocument"
            \/ loaded.media[1].file_type = "ANIMATION" /\ calls[1].method = "sendAnimation"
         /\ CarriesKeyboard(calls[1])
    /\ n >= 2 =>
         /\ calls[1].method = "sendMediaGroup"
         /\ Len(calls[1].media) = n
         /\ calls[1].reply_markup = NoKeyboard
         /\ Len(calls) = IF loaded.buttons # <<>> THEN 2 ELSE 1
         /\ Len(calls) = 2 =>
              /\ calls[2].method = "sendMessage"
              /\ calls[2].media = <<>>
              /\ calls[2].reply_markup # NoKeyboard

\* a post with a media group and buttons has been rendered
C16_Witness ==
  /\ Len(loaded.media) >= 2
  /\ loaded.buttons # <<>>
  /\ Len(calls) = 2

\* C17: captions of outgoing media: a single item goes with its own caption
\* if it has one, else with the post body; in a media group the first item
\* goes with the post body and every other item with its own caption or none.
C17_Captions ==
  calls # <<>> =>
    LET n == Len(loaded.media) IN
    /\ n = 1 =>
         calls[1].text = IF loaded.media[1].caption \in Captions
                           THEN loaded.media[1].caption ELSE loaded.text
    /\ n >= 2 =>
         /\ calls[1].media[1].caption = loaded.text
         /\ \A k \in 2..n : calls[1].media[k].caption = loaded.media[k].caption

\* a group has been rendered whose first item has a caption of its own and
\* whose later items have one with and one without caption
C17_Witness ==
  /\ calls # <<>>
  /\ Len(loaded.media) >= 3
  /\ loaded.media[1].caption \in Captions
  /\ loaded.media[2].caption \in Captions
  /\ loaded.media[3].caption = NoCaption

\* C18: the outbound keyboard lists the rows in ascending numeric order of
\* the row index and the buttons of a row in ascending position.
C18_KeyboardAscending ==
  \A c \in DOMAIN calls :
    LET kb == calls[c].reply_markup IN
    /\ \A r \in DOMAIN kb : \A j, k \in DOMAIN kb[r] :
         j < k => kb[r][j].row = kb[r][k].row /\ kb[r][j].position < kb[r][k].position
    /\ \A r, q \in DOMAIN kb : r < q => kb[r][1].row < kb[q][1].row

\* C19: a cancel, by the cancel button of either flow or by the /cancel
\* command, leaves the draft cleared and creates or modifies no row.
C19_CancelClearsDraft ==
  [][(HandleCancel \/ CancelCommandDone) =>
       /\ draft' = NoDraft
       /\ UNCHANGED <<posts, schedules, statistics>>]_vars

\* C20: in every commit path a failing repository call leaves the session
\* draft in place: no step in which a store call of the admin's commit fails
\* clears the draft.
C20_FailedCommitKeepsDraft ==
  [][(faults' # faults /\ draft # NoDraft) => draft' # NoDraft]_vars

\* C21: one confirm at the preview runs exactly one terminal action, the one
\* of the draft's intent: a target time means the scheduled commit, else
\* status DRAFT means draft persistence, else immediate publish; the confirm
\* creates at most one Post, and none only when its store call failed.
C21_ConfirmRunsOneAction ==
  [][HandleConfirm =>
       /\ Len(posts') - Len(posts) \in {0, 1}
       /\ Len(posts') = Len(posts) => faults' # faults
       /\ Len(posts') = Len(posts) + 1 =>
            /\ SubSeq(posts', 1, Len(posts)) = posts
            /\ posts'[Len(posts')].status =
                 IF draft.scheduledAt # 0 THEN "SCHEDULED"
                 ELSE IF draft.status = "DRAFT" THEN "DRAFT"
                 ELSE "PUBLISHED"
            /\ draft.scheduledAt # 0 => admin'.pc = "spSchedule"
            /\ (draft.scheduledAt = 0 /\ draft.status = "DRAFT") =>
                 admin' = admin /\ draft' = NoDraft
            /\ (draft.scheduledAt = 0 /\ draft.status # "DRAFT") =>
                 admin'.pc = "pnPublish"]_vars

\* a confirm of a draft with a target time has created its SCHEDULED post and
\* is on its way to the schedule
C21_Witness ==
  /\ admin.pc = "spSchedule"
  /\ draft.scheduledAt # 0
  /\ draft.status = "DRAFT"
  /\ posts[admin.post].status = "SCHEDULED"

\* C23: in the media step the items of the draft carry the positions 0..N-1
\* in append order, N never exceeds 10, and within one composition the media
\* list changes only by one item appended at the end to a list of fewer than
\* 10 (a new /newpost or a cancel empties it).
C23_MediaPositionsInAppendOrder ==
  [][/\ Len(draft'.mediaFiles) <= 10
     /\ \A k \in DOMAIN draft'.mediaFiles : draft'.mediaFiles[k].position = k - 1
     /\ (draft'.mediaFiles # <<>> /\ draft'.mediaFiles # draft.mediaFiles) =>
          /\ Len(draft.mediaFiles) < 10
          /\ Len(draft'.mediaFiles) = Len(draft.mediaFiles) + 1
          /\ SubSeq(draft'.mediaFiles, 1, Len(draft.mediaFiles)) = draft.mediaFiles]_vars

\* ten items of both kinds have been appended: the next upload is the
\* eleventh
C23_Witness ==
  /\ Len(draft.mediaFiles) = 10
  /\ draft.mediaFiles[1].fileType = "ANIMATION"
  /\ draft.mediaFiles[10].fileType = "PHOTO"
  /\ draft.mediaFiles[10].position = 9

\* C22: publish-now of a valid draft with k media and m buttons whose send
\* the platform accepted ends with exactly one new Post, status PUBLISHED, its
\* message id set, k Media rows at positions 0..k-1 in draft order and m
\* Button rows with the draft's row and position.
C22_PublishNowRows ==
  [][(PublishNowDone /\ deliv[AdminProc].pc = "retTrue") =>
       /\ Len(posts') = 1
       /\ sent = <<1>>
       /\ posts'[1].status = "PUBLISHED"
       /\ posts'[1].telegram_message_id # 0
       /\ posts'[1].text = draft.text
       /\ Len(posts'[1].media) = Len(draft.mediaFiles)
       /\ \A k \in DOMAIN draft.mediaFiles :
            /\ posts'[1].media[k].position = k - 1
            /\ posts'[1].media[k].file_id = draft.mediaFiles[k].fileId
            /\ posts'[1].media[k].file_type = draft.mediaFiles[k].fileType
            /\ posts'[1].media[k].caption = draft.mediaFiles[k].caption
       /\ Len(posts'[1].buttons) = Len(draft.buttons)
       /\ \A k \in DOMAIN draft.buttons :
            /\ posts'[1].buttons[k].row = draft.buttons[k].row
            /\ posts'[1].buttons[k].position = draft.buttons[k].position
            /\ posts'[1].buttons[k].text = draft.buttons[k].text
            /\ posts'[1].buttons[k].url = draft.buttons[k].url]_vars

\* a draft of three media items and two buttons has been published and the
\* handler has cleared the draft
C22_Witness ==
  /\ draft = NoDraft
  /\ admin = IdleAdmin
  /\ Len(posts) = 1
  /\ posts[1].telegram_message_id # 0
  /\ Len(posts[1].media) = 3
  /\ posts[1].media[1].file_type # posts[1].media[3].file_type
  /\ Len(posts[1].buttons) = 2

C24_DuplicateEqualsOriginal ==
  admin.pc = "dupDone" =>
    LET d == posts[admin.post]
        o == loaded.post
    IN /\ admin.post # loaded.id
       /\ d.status = "DRAFT"
       /\ d.text = o.text
       /\ d.media = o.media
       /\ d.buttons = o.buttons
       /\ d.telegram_message_id = 0
       /\ d.published_at = 0
       /\ ScheduleOfPost(admin.post) = {}
       /\ admin.post \notin statistics
       /\ posts[loaded.id] = o

\* a published post with three media items, captions among them, and two
\* buttons has been duplicated
C24_Witness ==
  /\ admin.pc = "dupDone"
  /\ loaded.post.status = "PUBLISHED"
  /\ loaded.post.telegram_message_id # 0
  /\ Len(loaded.post.media) = 3
  /\ loaded.post.media[2].caption = "a"
  /\ loaded.post.media[3].caption = NoCaption
  /\ Len(loaded.post.buttons) = 2
  /\ Len(posts[admin.post].media) = 3

\* C26: the selection of a channel that is missing or deactivated leaves the
\* draft as it was and does not go on to the text step; only a channel that
\* exists and is active is stored in the draft.
C26_OnlyActiveChannelSelected ==
  [][\A c \in ChannelIds :
       (HandleChannelSelection(c) /\ channels[c] # "active") =>
         (draft' = draft /\ reply'.kind # "textInput")]_vars

\* the name of a tag as HTML reads it
RealName(tag) == [letters |-> ToLowerCase(tag.name.letters), rest |-> tag.name.rest]
Whitelisted(tag) == tag.name.rest = "" /\ ToLowerCase(tag.name.letters) \in allowedTags

\* every closing tag closes the tag opened last, and nothing stays open
RECURSIVE ProperlyNested(_, _, _)
ProperlyNested(tags, k, open) ==
  IF k > Len(tags) THEN open = <<>>
  ELSE IF tags[k].close
    THEN /\ open # <<>>
         /\ open[Len(open)] = RealName(tags[k])
         /\ ProperlyNested(tags, k + 1, SubSeq(open, 1, Len(open) - 1))
  ELSE IF tags[k].selfClosing THEN ProperlyNested(tags, k + 1, open)
  ELSE ProperlyNested(tags, k + 1, Append(open, RealName(tags[k])))

\* C27: validateHTML accepts a text iff all its tags are whitelisted and
\* properly nested with nothing left open; a rejection for an unknown tag or a
\* wrong closing tag names a tag of the text that is at fault.
C27_ValidateHTMLAcceptsWellFormed ==
  [][(TextInput /\ ValidateTextLength(admin.text) = Valid) =>
       LET tags == admin.text.tags IN
       /\ reply'.kind = "textConfirmation" <=>
            /\ \A k \in DOMAIN tags : Whitelisted(tags[k])
            /\ ProperlyNested(tags, 1, <<>>)
       /\ reply'.kind = "notAllowed" =>
            \E k \in DOMAIN tags :
              /\ ~Whitelisted(tags[k])
              /\ RealName(tags[k]) = [letters |-> reply'.names[1], rest |-> ""]
       /\ reply'.kind = "nesting" =>
            \E k \in DOMAIN tags :
              /\ tags[k].close
              /\ RealName(tags[k]) = [letters |-> reply'.names[2], rest |-> ""]]_vars

\* C28, as stated: the text step accepts every non-blank text of length up to
\* 4096 and answers every text of 4097 or more characters with the error that
\* states its length and the maximum; the draft text is set only on acceptance.
C28_AsStated ==
  [][TextInput =>
       /\ (~admin.text.blank /\ admin.text.length <= MAX_TEXT_LENGTH) =>
            (reply'.kind = "textConfirmation" /\ draft'.text = admin.text)
       /\ admin.text.length >= MAX_TEXT_LENGTH + 1 =>
            reply' = Answer("tooLong", admin.text.length, MAX_TEXT_LENGTH, <<>>)
       /\ draft'.text # draft.text => reply'.kind = "textConfirmation"]_vars

\* C28, amended: the text step accepts every non-blank text of length up to
\* 4096 whose markup validateHTML accepts, and answers every non-blank text of
\* 4097 or more characters with the error that states its length and the
\* maximum 4096; the draft text is set only on acceptance.
C28_TextLengthBoundary ==
  [][TextInput =>
       /\ (/\ ~admin.text.blank
           /\ admin.text.length <= MAX_TEXT_LENGTH
           /\ ValidateHTML(admin.text) = Valid) =>
            (reply'.kind = "textConfirmation" /\ draft'.text = admin.text)
       /\ (~admin.text.blank /\ admin.text.length >= MAX_TEXT_LENGTH + 1) =>
            /\ reply' = Answer("tooLong", admin.text.length, MAX_TEXT_LENGTH, <<>>)
            /\ UNCHANGED draft
       /\ draft'.text # draft.text => reply'.kind = "textConfirmation"]_vars

\* a text of exactly the maximum length has been accepted into the draft
C28_Witness ==
  /\ reply.kind = "textConfirmation"
  /\ draft.step = "media"
  /\ draft.text.length = MAX_TEXT_LENGTH

\* C29: the minute step stores a time whose minutes are 0, 15, 30 or 45, and
\* so are the minutes of every time the date and hour steps store.
C29_MinutesQuantised ==
  [][(\/ \E day \in Days : HandleCalendarCallback(day)
      \/ \E hour \in Hours : HandleTimeCallback(hour)
      \/ \E minute \in 0..(MinutesPerHour - 1) : HandleMinuteCallback(minute))
       => (draft'.scheduledAt # 0 =>
             MinuteOf(draft'.scheduledAt) \in {0, 15, 30, 45})]_vars

\* the minute step has stored a time with a quarter other than the full hour
C29_Witness ==
  /\ draft.step = "preview"
  /\ reply.kind = "preview"
  /\ MinuteOf(draft.scheduledAt) = 45
  /\ HourOf(draft.scheduledAt) = 23

\* C30: a date selection stores no day earlier than the local day of the
\* moment of the selection.
C30_NoPastDayStored ==
  [][\A day \in Days :
       HandleCalendarCallback(day) => ~(DayOf(draft'.scheduledAt) < DayOf(now))]_vars

\* C31: a Schedule row created by the commit of a new publication has a
\* target time later than the current time.
C31_ScheduleNotInThePast ==
  [][ScheduledPostCreate =>
       \A s \in schedules' \ schedules : s.scheduled_at > now]_vars

AskedForText ==
  reply.kind \in {"textInput", "empty", "tooLong", "notAllowed", "nesting", "unclosed"}
AskedForMedia ==
  reply.kind \in {"mediaUpload", "mediaAdded", "mediaSize", "mediaGroupSize"}

\* C33: a composition input that arrives when the session holds no draft,
\* its TTL having lapsed during the composition (a text message where the
\* bot asked for the text, a media message where it asked for media, a flow
\* callback), is answered with the session-expired instruction and creates
\* no row.
C33_ExpiredSessionIsAnswered ==
  [][(/\ draft.status = "NONE"
      /\ \/ TextInput /\ AskedForText
         \/ AskedForMedia /\ \E msg \in Uploads : HandleMediaUpload(msg)
         \/ HandleMediaAddStep
         \/ HandleButtonAddStep)
       => /\ reply'.kind = "sessionExpired"
          /\ posts' = posts
          /\ schedules' = schedules]_vars

\* ---- edit sessions beside the scheduler -----------------------------------
\* Scheduled commits, edit sessions (load, pick a time, save) and invocations
\* of the scheduler one at a time; the store answers every call.  The clock
\* stands at minute 1: a post scheduled for minute 1 is due, one scheduled
\* for a later minute is not.
NextEditSession ==
  \/ StartScheduler(1)
  \/ IntervalTick(1)
  \/ TriggerSchedulerCheck(1)
  \/ \E t \in TickIds : TickDeliver(t)
  \/ \E t \in TickIds : TickSuccess(t)
  \/ \E t \in TickIds : TickFailure(t)
  \/ \E t \in TickIds : TickCatchSchedule(t)
  \/ \E t \in TickIds : TickCatchPost(t)
  \/ \E c \in TickIds : DeliverSend(c)
  \/ \E c \in TickIds : DeliverSetPublished(c)
  \/ \E c \in TickIds : DeliverSetMessageId(c)
  \/ \E c \in TickIds : DeliverSetFailed(c)
  \/ NewpostCommand
  \/ \E t \in 1..MaxTime : SelectTime(t)
  \/ HandleScheduledPost
  \/ ScheduledPostCreate
  \/ ScheduledPostStatus
  \/ \E p \in 1..MaxPosts : LoadPostForEdit(p)
  \/ HandleSaveEdit
  \/ SaveEditDelete
  \/ SaveEditCreate
  \/ SaveEditStatus

SpecEditSession == InitReliable /\ [][NextEditSession]_vars

\* C34: every Post has at most one Schedule row, whatever schedule creations,
\* edit-saves (delete, then create again) and scheduler ticks have run.
C34_AtMostOneSchedulePerPost ==
  \A s1, s2 \in schedules : s1.post_id = s2.post_id => s1 = s2

\* an edit-save has deleted the post's row and created its successor while
\* an invocation of the scheduler is under way
C34_Witness ==
  /\ admin.pc = "esStatus"
  /\ \E s \in schedules : s.post_id = admin.post /\ s.id > 1
  /\ \E t \in TickIds : tick[t].pc # "idle"

\* the store calls of handleSaveEdit
SaveEditStep == HandleSaveEdit \/ SaveEditDelete \/ SaveEditCreate \/ SaveEditStatus

\* C35: an edit-save never puts a post the scheduler has published back to
\* SCHEDULED and never gives it a new PENDING Schedule, so an edit session
\* interleaved with a tick causes no second delivery.
C35_EditSaveKeepsPublished ==
  [][SaveEditStep =>
       \A p \in DOMAIN posts :
         posts[p].status = "PUBLISHED" =>
           /\ posts'[p].status = "PUBLISHED"
           /\ \A s \in schedules' \ schedules :
                ~(s.post_id = p /\ s.status = "PENDING")]_vars

\* ---- the time keyboard of an edit session ---------------------------------
\* handleTimeEdit: the quick time-selection keyboard of the new-post flow
\* (publish now, schedule, in 2 minutes, save as draft) is sent
HandleTimeEdit ==
  /\ AdminIdle
  /\ reply' = IF draft.status = "NONE" THEN [kind |-> "sessionExpired"]
              ELSE [kind |-> "timeSelection"]
  /\ UNCHANGED <<now, channels, posts, schedules, statistics, nextScheduleId,
                 schedulerInterval, timers, loaded, calls, botInstance, tick, deliv, admin,
                 draft, faults, sent, failedAttempts>>

\* the reschedule action of a scheduled post: loadPostForEdit(ctx, postId),
\* then the same keyboard
HandleReschedule(p) ==
  /\ AdminIdle
  /\ p \in 1..Len(posts)
  /\ draft' = IF posts[p].status \in {"DRAFT", "SCHEDULED"} THEN EditDraft(p)
              ELSE draft
  /\ reply' = [kind |-> "timeSelection"]
  /\ UNCHANGED <<now, channels, posts, schedules, statistics, nextScheduleId,
                 schedulerInterval, timers, loaded, calls, botInstance, tick, deliv, admin,
                 faults, sent, failedAttempts>>

\* the time button of the edit menu, which showEditMenu sends for a post
\* loaded into the session
EditMenuTime == draft.id # 0 /\ HandleTimeEdit

\* a button of the time-selection keyboard is pressed: the np_ callbacks run
\* the handlers of the new-post flow
TimeSelectionPublishNow == reply.kind = "timeSelection" /\ HandlePublishNow
TimeSelectionInTwoMinutes == reply.kind = "timeSelection" /\ HandleScheduleInTwoMinutes
TimeSelectionSaveDraft == reply.kind = "timeSelection" /\ HandleSaveDraft
\* the schedule button: the pickers set the draft's time (SelectTime) and end
\* in the preview, whose confirm button runs handleScheduledPost
TimeSelectionSchedule == reply.kind = "timeSelection" /\ HandleScheduledPost
\* the confirm button of a new post's preview
ConfirmNewPost == draft.id = 0 /\ HandleScheduledPost

\* Posts are scheduled through the new-post flow, then opened for editing:
\* the edit menu's time button or the reschedule action shows the keyboard,
\* one of its buttons is pressed, or the edit is saved from the edit menu.
NextEditTime ==
  \/ NewpostCommand
  \/ \E t \in 1..MaxTime : SelectTime(t)
  \/ ConfirmNewPost
  \/ ScheduledPostCreate
  \/ ScheduledPostStatus
  \/ \E p \in 1..MaxPosts : LoadPostForEdit(p)
  \/ EditMenuTime
  \/ \E p \in 1..MaxPosts : HandleReschedule(p)
  \/ TimeSelectionPublishNow
  \/ TimeSelectionInTwoMinutes
  \/ TimeSelectionSaveDraft
  \/ TimeSelectionSchedule
  \/ PublishNowDeliver
  \/ PublishNowDone
  \/ DeliverSend(AdminProc)
  \/ DeliverSetPublished(AdminProc)
  \/ DeliverSetMessageId(AdminProc)
  \/ DeliverSetFailed(AdminProc)
  \/ HandleSaveEdit
  \/ SaveEditDelete
  \/ SaveEditCreate
  \/ SaveEditStatus

SpecEditTime == InitReliable /\ [][NextEditTime]_vars

\* C36: while the session holds the draft of an existing post (an edit
\* session), no step changes the number of Post rows.
C36_EditCreatesNoPost ==
  [][draft.id # 0 /\ draft.status # "NONE" => Len(posts') = Len(posts)]_vars

\* C37: a post whose send the platform accepted is never recorded FAILED,
\* and neither is its Schedule, whatever fails after the send.
C37_DeliveredNeverFailed ==
  \A i \in DOMAIN sent :
    /\ posts[sent[i]].status # "FAILED"
    /\ \A s \in ScheduleOfPost(sent[i]) : s.status # "FAILED"

\* C38: when a step of a commit after createPost fails (the handler ends in
\* its catch and the draft is retained), the Post row that commit created is
\* no longer in the store.
C38_FailedCommitLeavesNoPost ==
  [][(/\ admin.pc \in {"spSchedule", "spStatus"}
      /\ admin'.pc = "idle"
      /\ draft'.status # "NONE")
     => admin.post > Len(posts')]_vars

\* ---- the handlers of message:text in registration order ------------------
\* index.ts registers the text handler, the media handler and the button
\* handler in this order.  A text message goes to the first handler of
\* message:text, the text handler; it returns without calling next() whatever
\* is awaited, so the button handler, registered after it, is not run.
NextDispatch ==
  \/ \E t \in SampleTexts : TextMessage(t)
  \/ TextInput
  \/ HandleMediaAddStep
  \/ \E msg \in {m \in Uploads : m.type = "photo"} : HandleMediaUpload(msg)
  \/ HandleButtonAddStep

SpecDispatch == InitInput /\ [][NextDispatch]_vars

\* the answers of the button handler
ButtonAnswers == {"buttonAdded", "buttonFormat", "buttonText", "buttonUrl"}

\* C39: a text message that arrives while a button is awaited is processed
\* by the button handler (it is answered with one of that handler's replies),
\* and one that arrives while the text is awaited by the text handler (it is
\* answered with the confirmation or a validation error).
C39_OneHandlerByAwaitingType ==
  [][admin.pc = "textMessage" /\ admin'.pc = "idle" =>
       /\ draft.awaiting = "button" => reply'.kind \in ButtonAnswers
       /\ draft.awaiting = "text" => reply'.kind # "none"]_vars

\* no commit, edit-save or scheduler invocation is under way
Quiescent ==
  /\ admin.pc = "idle"
  /\ \A t \in TickIds : tick[t].pc = "idle"
  /\ \A c \in Procs : deliv[c].pc = "idle"

\* C40: whenever no commit, edit-save or tick is in progress, a Post is
\* SCHEDULED exactly when it has a Schedule row that is PENDING.
C40_ScheduledIffPending ==
  Quiescent =>
    \A p \in DOMAIN posts :
      posts[p].status = "SCHEDULED" <=>
        \E s \in ScheduleOfPost(p) : s.status = "PENDING"

====
